---- MODULE Spec2Model ----
(***************************************************************************)
(* Model of the temperature conversion engine                              *)
(* (TemperatureConversionService: convert, batchConvert and the private    *)
(* helpers they call) and of the HTTP layer in front of it (the request    *)
(* schemas, the two controller methods and the error handler).             *)
(*                                                                         *)
(* Numbers.  A JavaScript number is an IEEE 754 binary64 value, modelled   *)
(* as a record [k, neg, m]:                                                *)
(*   k = "fin"  the finite value (neg ? -1 : 1) * m / 2^FracBits, where m  *)
(*              is a natural number of at most MantissaBits significant    *)
(*              bits, held as a sequence of limbs;                         *)
(*   k = "nan", k = "inf"  NaN and the two infinities.                     *)
(* Every arithmetic operation computes the exact result and rounds it to   *)
(* the nearest representable number, ties to even, as the hardware does.   *)
(***************************************************************************)
EXTENDS Integers, Sequences, FiniteSets, TLC

VARIABLES call, outcome, now, req, res, frames, server

vars == <<call, outcome, now, req, res, frames, server>>

\* ------------------------------------------------------------------ bounds
MaxBatch == 2
MaxClock == 3

\* ------------------------------------------------- natural numbers of any size
\* little-endian sequences of limbs in base LimbBase, no leading zero limb
LimbBits == 14
LimbBase == 16384

\* the one element of a singleton set
TheOne(S) == CHOOSE v \in S : TRUE

\* The operations go limb by limb without recursing over the limbs, so that
\* numbers of a thousand bits (the largest finite binary64 numbers scaled by
\* 2^FracBits) need no deeper evaluation than small ones.

\* a without its leading zero limbs
BNorm(a) ==
  IF \A i \in DOMAIN a : a[i] = 0
    THEN <<>>
    ELSE SubSeq(a, 1, CHOOSE i \in DOMAIN a :
                        a[i] # 0 /\ \A j \in (i + 1)..Len(a) : a[j] = 0)

\* limb i of a, 0 beyond its length
BLimb(a, i) == IF i <= Len(a) THEN a[i] ELSE 0

\* the carry into limb i of a sum whose limb sums are s (each below
\* 2 * LimbBase - 1): a limb below i overflows and every limb between
\* hands the carry on
BCarry(s, i) ==
  IF \E j \in 1..(i - 1) :
       s[j] >= LimbBase /\ \A t \in (j + 1)..(i - 1) : s[t] = LimbBase - 1
    THEN 1 ELSE 0

\* a + b (leading zero limbs of the operands kept)
BAdd(a, b) ==
  TheOne({[i \in 1..Len(s) |-> (s[i] + BCarry(s, i)) % LimbBase]
            \o (IF BCarry(s, Len(s) + 1) = 1 THEN <<1>> ELSE <<>>) :
          s \in {[i \in 1..(IF Len(a) > Len(b) THEN Len(a) ELSE Len(b)) |->
                   BLimb(a, i) + BLimb(b, i)] \o <<>>}})

\* the borrow from limb i of a difference whose limb differences are d
BBorrow(d, i) ==
  IF \E j \in 1..(i - 1) : d[j] < 0 /\ \A t \in (j + 1)..(i - 1) : d[t] = 0
    THEN 1 ELSE 0

\* a - b for a >= b
BSub(a, b) ==
  TheOne({BNorm([i \in 1..Len(d) |-> (d[i] - BBorrow(d, i)) % LimbBase] \o <<>>) :
          d \in {[i \in 1..Len(a) |-> a[i] - BLimb(b, i)] \o <<>>}})

\* -1, 0, 1 as a < b, a = b, a > b, decided by the highest limb that differs
BCmp(a, b) ==
  IF Len(a) < Len(b) THEN -1
  ELSE IF Len(a) > Len(b) THEN 1
  ELSE IF a = b THEN 0
  ELSE TheOne({IF a[i] < b[i] THEN -1 ELSE 1 :
               i \in {CHOOSE i \in DOMAIN a :
                        a[i] # b[i] /\ \A j \in (i + 1)..Len(a) : a[j] = b[j]}})

\* a * k for 0 < k < 2^16: the limb products a[i] * k < LimbBase^3 split
\* into their three limbs and added up in place
BMulSmall(a, k) ==
  IF a = <<>>
    THEN a
    ELSE BNorm(BAdd(BAdd([i \in 1..Len(a) |-> (a[i] * k) % LimbBase] \o <<>>,
                         <<0>> \o [i \in 1..Len(a) |-> ((a[i] * k) \div LimbBase) % LimbBase]),
                    IF k < LimbBase
                      THEN <<>>
                      ELSE <<0, 0>> \o [i \in 1..Len(a) |->
                                           (a[i] * k) \div (LimbBase * LimbBase)]))

\* a * b, from limb i of b
RECURSIVE BMulFrom(_, _, _)
BMulFrom(a, b, i) ==
  IF i > Len(b) \/ a = <<>>
    THEN <<>>
    ELSE IF b[i] = 0
           THEN <<0>> \o BMulFrom(a, b, i + 1)
           ELSE BAdd(BMulSmall(a, b[i]), <<0>> \o BMulFrom(a, b, i + 1))

\* (the recursion runs over the limbs of the shorter factor)
BMul(a, b) ==
  IF Len(a) >= Len(b) THEN BNorm(BMulFrom(a, b, 1)) ELSE BNorm(BMulFrom(b, a, 1))

\* long division of limbs hi down to lo of a by k, 0 < k < 2^16, the
\* remainder r coming in from the limbs above: the quotient limbs and the
\* remainder going out, the upper half divided first
RECURSIVE BDivRange(_, _, _, _, _)
BDivRange(a, k, lo, hi, r) ==
  IF lo = hi
    THEN [q |-> <<(r * LimbBase + a[lo]) \div k>>, r |-> (r * LimbBase + a[lo]) % k]
    ELSE TheOne({TheOne({[q |-> lower.q \o upper.q, r |-> lower.r] :
                         lower \in {BDivRange(a, k, lo, (lo + hi + 1) \div 2 - 1, upper.r)}}) :
                 upper \in {BDivRange(a, k, (lo + hi + 1) \div 2, hi, r)}})

\* quotient and remainder of a by k, 0 < k < 2^16
BDivSmall(a, k) ==
  IF a = <<>>
    THEN [q |-> <<>>, r |-> 0]
    ELSE TheOne({[q |-> BNorm(d.q), r |-> d.r] : d \in {BDivRange(a, k, 1, Len(a), 0)}})

\* a * 2^n
BShiftLeft(a, n) ==
  IF a = <<>>
    THEN a
    ELSE [i \in 1..(n \div LimbBits) |-> 0] \o BMulSmall(a, 2^(n % LimbBits))

\* floor(a / 2^n)
BShiftRight(a, n) ==
  IF n \div LimbBits >= Len(a)
    THEN <<>>
    ELSE BDivSmall(SubSeq(a, n \div LimbBits + 1, Len(a)), 2^(n % LimbBits)).q

\* the number of bits of 0 <= n < LimbBase
RECURSIVE SmallBitLen(_)
SmallBitLen(n) == IF n = 0 THEN 0 ELSE 1 + SmallBitLen(n \div 2)

BBitLen(a) == IF a = <<>> THEN 0 ELSE LimbBits * (Len(a) - 1) + SmallBitLen(a[Len(a)])

\* a * 10^p
RECURSIVE BMulPow10(_, _)
BMulPow10(a, p) ==
  IF p = 0 \/ a = <<>> THEN a
  ELSE IF p >= 4 THEN BMulPow10(BMulSmall(a, 10000), p - 4)
  ELSE BMulPow10(BMulSmall(a, 10), p - 1)

\* floor(a / 10^p), with r # 0 when the division is not exact
RECURSIVE BDivPow10(_, _, _)
BDivPow10(a, p, r) ==
  IF p = 0
    THEN [q |-> a, r |-> r]
    ELSE TheOne({BDivPow10(d.q, IF p >= 4 THEN p - 4 ELSE p - 1, IF d.r # 0 THEN 1 ELSE r) :
                   d \in {BDivSmall(a, IF p >= 4 THEN 10000 ELSE 10)}})

\* ------------------------------------------------------- IEEE 754 binary64
\* A finite number is [k |-> "fin", neg, m]: the value (neg ? -1 : 1) * m / 2^FracBits,
\* m a natural number with at most MantissaBits significant bits.
FracBits == 112
GuardBits == 28
MantissaBits == 53
MaxExponent == 1024

One == BShiftLeft(<<1>>, FracBits)
Half == BShiftLeft(<<1>>, FracBits - 1)
HalfLess == BSub(Half, <<1>>)

NaN == [k |-> "nan", neg |-> FALSE, m |-> <<>>]
PosInfinity == [k |-> "inf", neg |-> FALSE, m |-> <<>>]
NegInfinity == [k |-> "inf", neg |-> TRUE, m |-> <<>>]

isFinite(x) == x.k = "fin"

\* the number of magnitude mag / 2^FracBits: an infinity beyond the largest
\* finite number, and no negative zero
MkFin(sign, mag) ==
  IF BBitLen(mag) > MaxExponent + FracBits
    THEN (IF sign THEN NegInfinity ELSE PosInfinity)
    ELSE [k |-> "fin", neg |-> (sign /\ mag # <<>>), m |-> mag]

\* n / 2^minShift rounded to MantissaBits significant bits, ties to even;
\* sticky: n stands for a value slightly above n.
\* h is n without the bits below the rounding bit.
RoundNearestEven(n, minShift, sticky) ==
  LET len == BBitLen(n) - MantissaBits
      s == IF len > minShift THEN len ELSE minShift
  IN  IF s = 0
        THEN n
        ELSE TheOne({BShiftLeft(
                       IF h # <<>> /\ h[1] % 2 = 1
                            /\ (sticky \/ h[1] % 4 = 3 \/ BShiftLeft(h, s - 1) # n)
                         THEN BAdd(BShiftRight(h, 1), <<1>>)
                         ELSE BShiftRight(h, 1),
                       s - minShift) :
                     h \in {BShiftRight(n, s - 1)}})

FRound(negative, n, minShift, sticky) ==
  MkFin(negative, RoundNearestEven(n, minShift, sticky))

FromInt(n) ==
  IF n = 0
    THEN MkFin(FALSE, <<>>)
    ELSE MkFin(n < 0, BShiftLeft(<<(IF n < 0 THEN -n ELSE n)>>, FracBits))

\* x + y exactly, as sign and magnitude
SignedSum(x, neg, m) ==
  IF x.neg = neg THEN [neg |-> neg, m |-> BAdd(x.m, m)]
  ELSE IF BCmp(x.m, m) >= 0 THEN [neg |-> x.neg, m |-> BSub(x.m, m)]
  ELSE [neg |-> neg, m |-> BSub(m, x.m)]

\* a + b when one of them is not finite, b taken with sign bneg: NaN
\* from a NaN and from infinities of opposite signs, otherwise the infinity
NonFiniteSum(a, b, bneg) ==
  IF a.k = "nan" \/ b.k = "nan" THEN NaN
  ELSE IF a.k = "inf" /\ b.k = "inf" /\ a.neg # bneg THEN NaN
  ELSE IF a.k = "inf" THEN a
  ELSE IF bneg THEN NegInfinity ELSE PosInfinity

\* a * b when one of them is not finite: NaN from a NaN and from
\* infinity times zero, otherwise the infinity of the product's sign
NonFiniteProduct(a, b) ==
  IF a.k = "nan" \/ b.k = "nan" THEN NaN
  ELSE IF (a.k = "fin" /\ a.m = <<>>) \/ (b.k = "fin" /\ b.m = <<>>) THEN NaN
  ELSE IF a.neg # b.neg THEN NegInfinity ELSE PosInfinity

\* x + y and x - y
FAdd(x, y) ==
  TheOne({IF a.k # "fin" \/ b.k # "fin"
            THEN NonFiniteSum(a, b, b.neg)
            ELSE TheOne({FRound(r.neg, r.m, 0, FALSE) : r \in {SignedSum(a, b.neg, b.m)}}) :
          a \in {x}, b \in {y}})

FSub(x, y) ==
  TheOne({IF a.k # "fin" \/ b.k # "fin"
            THEN NonFiniteSum(a, b, ~b.neg)
            ELSE TheOne({FRound(r.neg, r.m, 0, FALSE) : r \in {SignedSum(a, ~b.neg, b.m)}}) :
          a \in {x}, b \in {y}})

\* x * y
FMul(x, y) ==
  TheOne({IF a.k # "fin" \/ b.k # "fin"
            THEN NonFiniteProduct(a, b)
            ELSE FRound(a.neg # b.neg, BMul(a.m, b.m), FracBits, FALSE) :
          a \in {x}, b \in {y}})

\* x * k and x / k for a natural number 0 < k < 2^16 (a NaN and an
\* infinity stay what they are)
FMulSmall(x, k) ==
  TheOne({IF a.k # "fin" THEN a ELSE FRound(a.neg, BMulSmall(a.m, k), 0, FALSE) : a \in {x}})

FDivSmall(x, k) ==
  TheOne({IF a.k # "fin"
            THEN a
            ELSE TheOne({FRound(a.neg, d.q, GuardBits, d.r # 0) :
                           d \in {BDivSmall(BShiftLeft(a.m, GuardBits), k)}}) :
          a \in {x}})

\* x < y
FLess(x, y) ==
  IF x.neg # y.neg THEN x.neg
  ELSE IF x.neg THEN BCmp(y.m, x.m) < 0
  ELSE BCmp(x.m, y.m) < 0

\* Math.round: floor(x + 0.5), the nearest integer, a tie going towards +Infinity
MathRound(x) ==
  TheOne({IF a.k # "fin"
            THEN a
            ELSE MkFin(a.neg, BShiftLeft(BShiftRight(BAdd(a.m, IF a.neg THEN HalfLess
                                                                ELSE Half),
                                                     FracBits),
                                         FracBits)) : a \in {x}})

\* parseFloat of the decimal n * 10^(-p), n a natural number of any size
ParseDecimal(minus, n, p) ==
  TheOne({FRound(minus, d.q, d.s, d.r # 0) :
            d \in {IF p >= 0
                     THEN [s |-> GuardBits] @@ BDivPow10(BShiftLeft(n, FracBits + GuardBits), p, 0)
                     ELSE [s |-> 0, q |-> BShiftLeft(BMulPow10(n, -p), FracBits), r |-> 0]}})

\* the number written as the decimal literal n / 10^6
Dec(n) ==
  ParseDecimal(n < 0,
               TheOne({BNorm(<<a % LimbBase, (a \div LimbBase) % LimbBase,
                               a \div (LimbBase * LimbBase)>>) :
                         a \in {IF n < 0 THEN -n ELSE n}}),
               6)

\* the decimal exponent e of m > 0 : 10^e <= m / 2^FracBits < 10^(e + 1),
\* searched upwards from e when m >= 1 and downwards when m < 1
RECURSIVE DecExp(_, _)
DecExp(m, e) ==
  IF e >= 0
    THEN (IF BCmp(m, BMulPow10(One, e + 1)) >= 0 THEN DecExp(m, e + 1) ELSE e)
    ELSE (IF BCmp(BMulPow10(m, -e), One) >= 0 THEN e ELSE DecExp(m, e - 1))

\* where the search starts: for m >= 1 an exponent not above the decimal
\* exponent, from the number of bits of m (log10(2) > 0.30102), and -1
\* for m < 1
DecExpBelow(m) ==
  IF BCmp(m, One) >= 0
    THEN ((BBitLen(m) - FracBits - 1) * 30102) \div 100000
    ELSE -1

\* |x| * 10^p rounded to an integer, a tie going up
RoundHalfUpScaled(m, p) ==
  IF p >= 0
    THEN BShiftRight(BAdd(BMulPow10(m, p), Half), FracBits)
    ELSE BShiftRight(BAdd(BDivPow10(BMulSmall(m, 2), -p, 0).q, One), FracBits + 1)

\* parseFloat(x.toPrecision(digits))
toPrecision(x, digits) ==
  TheOne({IF a.m = <<>>
            THEN a
            ELSE TheOne({ParseDecimal(a.neg, RoundHalfUpScaled(a.m, p), p) :
                           p \in {digits - 1 - DecExp(a.m, DecExpBelow(a.m))}}) :
          a \in {x}})

\* ------------------------------------------------------------------- types
TemperatureUnit == {"celsius", "fahrenheit", "kelvin"}

TemperaturePrecisionContext == {"consumer", "industrial", "medical", "scientific"}

\* an absent optional field (undefined)
Undefined == "undefined"

\* Dec(n) is the number the decimal literal n / 10^6 denotes
ABSOLUTE_ZERO_KELVIN == Dec(0)
ABSOLUTE_ZERO_CELSIUS == Dec(-273150000)
ABSOLUTE_ZERO_FAHRENHEIT == Dec(-459670000)
SCIENTIFIC_DIGITS == 15

\* the literals of the conversion formulas: 273.15, 459.67, (5 / 9), (9 / 5)
KELVIN_OFFSET == Dec(273150000)
RANKINE_OFFSET == Dec(459670000)
FIVE_NINTHS == FDivSmall(FromInt(5), 9)
NINE_FIFTHS == FDivSmall(FromInt(9), 5)

\* ------------------------------------------------------------ input values
\* units and precision contexts a caller may name; "rankine" stands for every
\* string outside TemperatureUnit
Units == TemperatureUnit \cup {"rankine"}

Precisions == TemperaturePrecisionContext \cup {Undefined}

\* the finite input values, as decimal literals in millionths
Literals ==
  {0, 25000000, 25123456, 25125000, 32000000, 100000000, 273150000,
   -273150000, -273150001, -459670000, -459670001, -500000000,
   -1000000, 100000, 212000000, 512430000}

FiniteValues == {Dec(n) : n \in Literals}

Values == FiniteValues \cup {NaN, PosInfinity, NegInfinity}

\* ------------------------------------------------------------------ errors
ConversionError(message, code, field, value) ==
  [name |-> "ConversionError", code |-> code, field |-> field, value |-> value,
   message |-> message]

\* new Error(`Unsupported temperature unit: ${unit}`)
UnsupportedUnitError(unit) ==
  [name |-> "Error", code |-> Undefined, field |-> Undefined, value |-> Undefined,
   message |-> <<"Unsupported temperature unit", unit>>]

Throw(e) == [kind |-> "error", error |-> e]
Return(v) == [kind |-> "ok", value |-> v]

\* ----------------------------------------------------------------- service
getAbsoluteZeroInfo(unit) ==
  CASE unit = "kelvin" -> [value |-> ABSOLUTE_ZERO_KELVIN, name |-> "Kelvin"]
    [] unit = "celsius" -> [value |-> ABSOLUTE_ZERO_CELSIUS, name |-> "Celsius"]
    [] unit = "fahrenheit" -> [value |-> ABSOLUTE_ZERO_FAHRENHEIT, name |-> "Fahrenheit"]
    [] OTHER -> [value |-> ABSOLUTE_ZERO_KELVIN, name |-> Undefined]

\* the comparison taken as "not above" instead of "below"
validateAbsoluteZero_Inclusive(value, unit) ==
  TheOne({IF absoluteZeroInfo.name = Undefined
            THEN Return(Undefined)
            ELSE IF ~FLess(absoluteZeroInfo.value, value)
                   THEN Throw(ConversionError(<<"Temperature cannot be below absolute zero",
                                                absoluteZeroInfo.value,
                                                absoluteZeroInfo.name>>,
                                              "BELOW_ABSOLUTE_ZERO", "temperature.value",
                                              value))
                   ELSE Return(Undefined) :
          absoluteZeroInfo \in {getAbsoluteZeroInfo(unit)}})

\* (null is the record whose name is Undefined)
\* value is finite here: validateTemperature has checked it
validateAbsoluteZero(value, unit) ==
  TheOne({IF absoluteZeroInfo.name = Undefined
            THEN Return(Undefined)
            ELSE IF FLess(value, absoluteZeroInfo.value)
                   THEN Throw(ConversionError(<<"Temperature cannot be below absolute zero",
                                                absoluteZeroInfo.value,
                                                absoluteZeroInfo.name>>,
                                              "BELOW_ABSOLUTE_ZERO", "temperature.value",
                                              value))
                   ELSE Return(Undefined) :
          absoluteZeroInfo \in {getAbsoluteZeroInfo(unit)}})

\* the unit check made before the finite-value check
validateTemperature_UnitFirst(temperature) ==
  IF temperature.unit \notin TemperatureUnit
    THEN Throw(ConversionError(<<"Invalid temperature unit", temperature.unit>>,
                               "INVALID_TEMPERATURE_UNIT", "temperature.unit",
                               temperature.unit))
    ELSE IF ~isFinite(temperature.value)
           THEN Throw(ConversionError(<<"Temperature value must be a valid finite number">>,
                                      "INVALID_TEMPERATURE_VALUE", "temperature.value",
                                      temperature.value))
           ELSE validateAbsoluteZero(temperature.value, temperature.unit)

validateTemperature(temperature) ==
  IF ~isFinite(temperature.value)
    THEN Throw(ConversionError(<<"Temperature value must be a valid finite number">>,
                               "INVALID_TEMPERATURE_VALUE", "temperature.value",
                               temperature.value))
    ELSE IF temperature.unit \notin TemperatureUnit
           THEN Throw(ConversionError(<<"Invalid temperature unit", temperature.unit>>,
                                      "INVALID_TEMPERATURE_UNIT", "temperature.unit",
                                      temperature.unit))
           ELSE validateAbsoluteZero(temperature.value, temperature.unit)

\* the Celsius offset taken as 273.16 on the way to Kelvin
convertToKelvin_WrongOffset(value, fromUnit) ==
  CASE fromUnit = "kelvin" -> Return(value)
    [] fromUnit = "celsius" -> Return(FAdd(value, Dec(273160000)))
    [] fromUnit = "fahrenheit" -> Return(FMul(FAdd(value, RANKINE_OFFSET), FIVE_NINTHS))
    [] OTHER -> Throw(UnsupportedUnitError(fromUnit))

convertToKelvin(value, fromUnit) ==
  CASE fromUnit = "kelvin" -> Return(value)
    [] fromUnit = "celsius" -> Return(FAdd(value, KELVIN_OFFSET))
    [] fromUnit = "fahrenheit" ->
         Return(FMul(FAdd(value, RANKINE_OFFSET), FIVE_NINTHS))
    [] OTHER -> Throw(UnsupportedUnitError(fromUnit))

convertFromKelvin(kelvinValue, toUnit) ==
  CASE toUnit = "kelvin" -> Return(kelvinValue)
    [] toUnit = "celsius" -> Return(FSub(kelvinValue, KELVIN_OFFSET))
    [] toUnit = "fahrenheit" ->
         Return(FSub(FMul(kelvinValue, NINE_FIFTHS), RANKINE_OFFSET))
    [] OTHER -> Throw(UnsupportedUnitError(toUnit))

\* the same-unit shortcut left out: every conversion goes through Kelvin
performConversion_NoShortcut(value, fromUnit, toUnit) ==
  TheOne({IF kelvinValue.kind = "error"
            THEN kelvinValue
            ELSE convertFromKelvin(kelvinValue.value, toUnit) :
          kelvinValue \in {convertToKelvin(value, fromUnit)}})

performConversionOf(value, fromUnit, toUnit) ==
  IF fromUnit = toUnit
    THEN Return(value)
    ELSE TheOne({IF kelvinValue.kind = "error"
                   THEN kelvinValue
                   ELSE convertFromKelvin(kelvinValue.value, toUnit) :
                 kelvinValue \in {convertToKelvin(value, fromUnit)}})

\* table[key] when the table holds the key, computed otherwise
Cached(table, key, computed) == IF key \in DOMAIN table THEN table[key] ELSE computed

Range(table) == {table[key] : key \in DOMAIN table}

\* performConversion is a pure function: what it gives for the input values
\* is computed once and looked up afterwards
PerformConversionTable ==
  [a \in FiniteValues \X Units \X Units |-> performConversionOf(a[1], a[2], a[3])] @@ <<>>

performConversion(value, fromUnit, toUnit) ==
  Cached(PerformConversionTable, <<value, fromUnit, toUnit>>,
         performConversionOf(value, fromUnit, toUnit))

\* Math.round(value * factor) / factor
RoundToDecimals(value, factor) == FDivSmall(MathRound(FMulSmall(value, factor)), factor)

applyPrecisionOf(value, precision) ==
  CASE precision = "consumer" -> RoundToDecimals(value, 100)
    [] precision = "medical" -> RoundToDecimals(value, 1000)
    [] precision = "industrial" -> RoundToDecimals(value, 10000)
    [] precision = "scientific" -> toPrecision(value, SCIENTIFIC_DIGITS)
    [] OTHER -> toPrecision(value, SCIENTIFIC_DIGITS)

\* the unrounded values the input values convert to
ConvertedValues ==
  {r.value : r \in {t \in Range(PerformConversionTable) : t.kind = "ok"}}

\* applyPrecision is a pure function as well
ApplyPrecisionTable ==
  [a \in ConvertedValues \X TemperaturePrecisionContext |-> applyPrecisionOf(a[1], a[2])]
    @@ <<>>

\* the decimal places of Consumer and Medical exchanged
applyPrecision_Swapped(value, precision) ==
  CASE precision = "consumer" -> RoundToDecimals(value, 1000)
    [] precision = "medical" -> RoundToDecimals(value, 100)
    [] precision = "industrial" -> RoundToDecimals(value, 10000)
    [] OTHER -> toPrecision(value, SCIENTIFIC_DIGITS)

applyPrecision(value, precision) ==
  Cached(ApplyPrecisionTable, <<value, precision>>, applyPrecisionOf(value, precision))

\* an omitted precision taken as Consumer
EffectivePrecision_Consumer(p) == IF p = Undefined THEN "consumer" ELSE p

\* request.precision || TemperaturePrecisionContext.SCIENTIFIC
EffectivePrecision(p) == IF p = Undefined THEN "scientific" ELSE p

\* the label with the source unit left out
conversionMethod_TargetOnly(fromUnit, toUnit) == <<"NIST", "to", toUnit>>

\* `NIST-${request.temperature.unit}-to-${request.targetUnit}`, as the pieces
\* the template joins with hyphens (no unit name holds a hyphen)
conversionMethod(fromUnit, toUnit) == <<"NIST", fromUnit, "to", toUnit>>

\* a service that numbers its calls and lets the number into the result
convert_CountsCalls(request, clock) ==
  Return([original |-> request.temperature,
          converted |-> [value |-> FromInt(clock), unit |-> request.targetUnit,
                         precision |-> EffectivePrecision(request.precision)],
          precision |-> EffectivePrecision(request.precision),
          timestamp |-> clock,
          conversionMethod |-> conversionMethod(request.temperature.unit,
                                                request.targetUnit)])

\* a convert that rounds by the precision the temperature itself carries,
\* when it carries one
convert_ItemPrecision(request, clock) ==
  TheOne({IF valid.kind = "error"
            THEN valid
            ELSE TheOne({IF convertedValue.kind = "error"
                           THEN convertedValue
                           ELSE Return([original |-> request.temperature,
                                        converted |->
                                          [value |-> applyPrecision(convertedValue.value,
                                                                    precision),
                                           unit |-> request.targetUnit,
                                           precision |-> precision],
                                        precision |-> precision,
                                        timestamp |-> clock,
                                        conversionMethod |->
                                          conversionMethod(request.temperature.unit,
                                                           request.targetUnit)]) :
                         convertedValue \in {performConversion(request.temperature.value,
                                                               request.temperature.unit,
                                                               request.targetUnit)},
                         precision \in {IF "precision" \in DOMAIN request.temperature
                                          THEN request.temperature.precision
                                          ELSE EffectivePrecision(request.precision)}}) :
          valid \in {validateTemperature(request.temperature)}})

\* A throwing call gives Throw(e) and a returning one Return(v); the caller
\* hands a Throw on unchanged, as an exception nobody catches propagates.
\* TheOne({e : v \in {d}}) is e with v bound to the value of d.
convert(request, clock) ==
  TheOne({IF valid.kind = "error"
            THEN valid
            ELSE TheOne({IF convertedValue.kind = "error"
                           THEN convertedValue
                           ELSE Return([original |-> request.temperature,
                                        converted |->
                                          [value |-> applyPrecision(convertedValue.value,
                                                                    precision),
                                           unit |-> request.targetUnit,
                                           precision |-> precision],
                                        precision |-> precision,
                                        timestamp |-> clock,
                                        conversionMethod |->
                                          conversionMethod(request.temperature.unit,
                                                           request.targetUnit)]) :
                         convertedValue \in {performConversion(request.temperature.value,
                                                               request.temperature.unit,
                                                               request.targetUnit)},
                         precision \in {EffectivePrecision(request.precision)}}) :
          valid \in {validateTemperature(request.temperature)}})

\* an item whose convert throws is skipped and the map goes on
RECURSIVE MapConvert_SkipFailed(_, _, _, _)
MapConvert_SkipFailed(temperatures, targetUnit, precision, clock) ==
  IF temperatures = <<>>
    THEN Return(<<>>)
    ELSE TheOne({IF first.kind = "error"
                   THEN rest
                   ELSE Return(<<first.value>> \o rest.value) :
                 first \in {convert([temperature |-> Head(temperatures),
                                     targetUnit |-> targetUnit,
                                     precision |-> precision], clock)},
                 rest \in {MapConvert_SkipFailed(Tail(temperatures), targetUnit,
                                                 precision, clock)}})

\* every item is converted and the error of the last failing one is raised
RECURSIVE MapConvert_LastError(_, _, _, _)
MapConvert_LastError(temperatures, targetUnit, precision, clock) ==
  IF temperatures = <<>>
    THEN Return(<<>>)
    ELSE TheOne({IF rest.kind = "error"
                   THEN rest
                   ELSE IF first.kind = "error"
                          THEN first
                          ELSE Return(<<first.value>> \o rest.value) :
                 first \in {convert([temperature |-> Head(temperatures),
                                     targetUnit |-> targetUnit,
                                     precision |-> precision], clock)},
                 rest \in {MapConvert_LastError(Tail(temperatures), targetUnit,
                                                precision, clock)}})

\* the results collected in reverse order
RECURSIVE MapConvert_Reversed(_, _, _, _)
MapConvert_Reversed(temperatures, targetUnit, precision, clock) ==
  IF temperatures = <<>>
    THEN Return(<<>>)
    ELSE TheOne({IF first.kind = "error"
                   THEN first
                   ELSE TheOne({IF rest.kind = "error" THEN rest ELSE Return(rest.value \o <<first.value>>) :
                                rest \in {MapConvert_Reversed(Tail(temperatures), targetUnit,
                                          precision, clock)}}) :
                 first \in {convert([temperature |-> Head(temperatures),
                                     targetUnit |-> targetUnit,
                                     precision |-> precision], clock)}})

\* the batch's precision not handed to the items' requests
RECURSIVE MapConvert_NoPrecision(_, _, _, _)
MapConvert_NoPrecision(temperatures, targetUnit, precision, clock) ==
  IF temperatures = <<>>
    THEN Return(<<>>)
    ELSE TheOne({IF first.kind = "error"
                   THEN first
                   ELSE TheOne({IF rest.kind = "error" THEN rest ELSE Return(<<first.value>> \o rest.value) :
                                rest \in {MapConvert_NoPrecision(Tail(temperatures), targetUnit,
                                          precision, clock)}}) :
                 first \in {convert([temperature |-> Head(temperatures),
                                     targetUnit |-> targetUnit,
                                     precision |-> Undefined], clock)}})

\* the outcome of the earliest call that threw
FirstThrow(each) ==
  each[CHOOSE i \in DOMAIN each :
         each[i].kind = "error" /\ \A j \in 1..(i - 1) : each[j].kind # "error"]

\* request.temperatures.map(temperature => this.convert({...})): convert is
\* applied to the items in index order and the first item whose convert
\* throws ends the map with that exception.
MapConvert(temperatures, targetUnit, precision, clock) ==
  TheOne({IF \E i \in DOMAIN each : each[i].kind = "error"
            THEN FirstThrow(each)
            ELSE Return([i \in DOMAIN each |-> each[i].value]) :
          each \in {[i \in DOMAIN temperatures |->
                       convert([temperature |-> temperatures[i],
                                targetUnit |-> targetUnit,
                                precision |-> precision], clock)]}})

\* an empty batch refused, as the request schema refuses it
batchConvert_RejectEmpty(request, clock, elapsed) ==
  IF request.temperatures = <<>>
    THEN Throw(ConversionError(<<"At least one temperature value is required">>,
                               "EMPTY_BATCH", "temperatures", Undefined))
    ELSE TheOne({IF conversions.kind = "error"
                   THEN conversions
                   ELSE Return([conversions |-> conversions.value,
                                totalCount |-> Len(conversions.value),
                                processingTimeMs |-> RoundToDecimals(elapsed, 1000),
                                timestamp |-> clock]) :
                 conversions \in {MapConvert(request.temperatures, request.targetUnit,
                                             request.precision, clock)}})

\* elapsed is endTime - startTime, in ms;
\* Math.round(processingTime * 1000) / 1000 keeps three decimals of a ms
batchConvert(request, clock, elapsed) ==
  TheOne({IF conversions.kind = "error"
            THEN conversions
            ELSE Return([conversions |-> conversions.value,
                         totalCount |-> Len(conversions.value),
                         processingTimeMs |-> RoundToDecimals(elapsed, 1000),
                         timestamp |-> clock]) :
          conversions \in {MapConvert(request.temperatures, request.targetUnit,
                                      request.precision, clock)}})

\* ------------------------------------------------------------ request bodies
\* A JSON value of a request body: its type t, the number it is or, for a
\* string, reads as (NaN when it reads as none), and the string it is.
JNumber(x) == [t |-> "number", num |-> x, str |-> ""]
JString(s) == [t |-> "string", num |-> NaN, str |-> s]
JNumeral(s, x) == [t |-> "string", num |-> x, str |-> s]
JNull == [t |-> "null", num |-> NaN, str |-> ""]
JMissing == [t |-> "undefined", num |-> NaN, str |-> ""]

JObject(value, unit, precision) ==
  [t |-> "object", value |-> value, unit |-> unit, precision |-> precision]
JNoObject == [t |-> "undefined", value |-> JMissing, unit |-> JMissing, precision |-> JMissing]

JArray(items) == [t |-> "array", items |-> items]
JNoArray == [t |-> "undefined", items |-> <<>>]

\* enum HttpStatusCode
HttpStatusCode ==
  [OK |-> 200, BAD_REQUEST |-> 400, UNPROCESSABLE_ENTITY |-> 422,
   INTERNAL_SERVER_ERROR |-> 500, SERVICE_UNAVAILABLE |-> 503]

\* ---------------------------------------------------------------- validation
\* .min(1).max(1000) of the temperatures array
MinTemperatures == 1
MaxTemperatures == 1000

\* one entry of error.details: the path of the field and the rule it broke
Detail(path, rule) == [field |-> path, message |-> rule]

\* Joi.number().required().custom(finite): a number or a string that reads
\* as one is taken as that number; the details of what j breaks
JoiNumber(j, path) ==
  IF j.t = "undefined" THEN {Detail(path, "any.required")}
  ELSE IF j.t \notin {"number", "string"} \/ j.num.k = "nan" THEN {Detail(path, "number.base")}
  ELSE IF j.num.k = "inf" THEN {Detail(path, "number.infinity")}
  ELSE IF ~isFinite(j.num) THEN {Detail(path, "number.finite")}
  ELSE {}

\* Joi.string().valid(...allowed), .required() or .optional()
JoiStringValid(j, allowed, required, path) ==
  IF j.t = "undefined"
    THEN (IF required THEN {Detail(path, "any.required")} ELSE {})
    ELSE IF j.t = "string" /\ j.str \in allowed THEN {} ELSE {Detail(path, "any.only")}

\* the details of what the JSON value t breaks of temperatureValueSchema
temperatureValueSchema(t, path) ==
  IF t.t = "undefined" THEN {Detail(path, "any.required")}
  ELSE JoiNumber(t.value, path \o <<"value">>)
       \cup JoiStringValid(t.unit, TemperatureUnit, TRUE, path \o <<"unit">>)
       \cup JoiStringValid(t.precision, TemperaturePrecisionContext, FALSE,
                           path \o <<"precision">>)

\* the value validate returns for a temperature: the number coerced, an
\* absent precision left absent
ValidatedTemperature(t) ==
  IF t.precision.t = "undefined"
    THEN [value |-> t.value.num, unit |-> t.unit.str]
    ELSE [value |-> t.value.num, unit |-> t.unit.str, precision |-> t.precision.str]

ValidatedPrecision(j) == IF j.t = "undefined" THEN Undefined ELSE j.str

\* schema.validate(data, {abortEarly: false, stripUnknown: true}): every
\* detail of every broken rule, and the value
conversionRequestSchema(data) ==
  [errors |-> temperatureValueSchema(data.temperature, <<"temperature">>)
              \cup JoiStringValid(data.targetUnit, TemperatureUnit, TRUE, <<"targetUnit">>)
              \cup JoiStringValid(data.precision, TemperaturePrecisionContext, FALSE,
                                  <<"precision">>),
   value |-> [temperature |-> ValidatedTemperature(data.temperature),
              targetUnit |-> data.targetUnit.str,
              precision |-> ValidatedPrecision(data.precision)]]

\* the array rules with the upper limit left out
JoiArray_NoMax(a, path) ==
  IF a.t = "undefined" THEN {Detail(path, "any.required")}
  ELSE IF Len(a.items) < MinTemperatures THEN {Detail(path, "array.min")}
  ELSE {}

\* Joi.array().min(1).max(1000).required(), the items apart
JoiArray(a, path) ==
  IF a.t = "undefined" THEN {Detail(path, "any.required")}
  ELSE IF Len(a.items) < MinTemperatures THEN {Detail(path, "array.min")}
  ELSE IF Len(a.items) > MaxTemperatures THEN {Detail(path, "array.max")}
  ELSE {}

batchConversionRequestSchema(data) ==
  [errors |-> JoiArray(data.temperatures, <<"temperatures">>)
              \cup UNION {temperatureValueSchema(data.temperatures.items[i],
                                                 <<"temperatures", ToString(i)>>) :
                            i \in 1..Len(data.temperatures.items)}
              \cup JoiStringValid(data.targetUnit, TemperatureUnit, TRUE, <<"targetUnit">>)
              \cup JoiStringValid(data.precision, TemperaturePrecisionContext, FALSE,
                                  <<"precision">>),
   value |-> [temperatures |-> [i \in 1..Len(data.temperatures.items) |->
                                  ValidatedTemperature(data.temperatures.items[i])],
              targetUnit |-> data.targetUnit.str,
              precision |-> ValidatedPrecision(data.precision)]]

\* new ValidationError('Request validation failed', validationErrors)
ValidationError(errors) ==
  [name |-> "ValidationError", code |-> Undefined, field |-> Undefined, value |-> Undefined,
   message |-> <<"Request validation failed">>, errors |-> errors]

\* validateRequest(schema, data), validated being schema.validate(data)
validateRequest(validated) ==
  IF validated.errors # {}
    THEN Throw(ValidationError(validated.errors))
    ELSE Return(validated.value)

\* ------------------------------------------------------------- error handler
\* new AppError(message, statusCode); a subclass of Error that sets no name
AppError(message, statusCode) ==
  [name |-> "Error", code |-> Undefined, field |-> Undefined, value |-> Undefined,
   message |-> message, statusCode |-> statusCode, isOperational |-> TRUE]

\* error instanceof ValidationError, error instanceof AppError: told by the
\* field only that class declares
IsValidationError(error) == "errors" \in DOMAIN error
IsAppError(error) == "statusCode" \in DOMAIN error

createApiError(type, title, status, detail, instance) ==
  [type |-> type, title |-> title, status |-> status, detail |-> detail,
   instance |-> instance]

\* the apiError errorHandler builds for error
ApiErrorOf(error, url) ==
  IF IsValidationError(error)
    THEN createApiError("/errors/validation-failed", "Request Validation Failed",
                        HttpStatusCode.BAD_REQUEST,
                        <<"Validation failed", error.errors>>, url)
  ELSE IF IsAppError(error)
    THEN createApiError("/errors/application-error", error.message, error.statusCode,
                        error.message, url)
  ELSE IF error.name = "ConversionError"
    THEN createApiError("/errors/conversion-failed", "Temperature Conversion Failed",
                        HttpStatusCode.UNPROCESSABLE_ENTITY, error.message, url)
  ELSE createApiError("/errors/internal-server-error", "Internal Server Error",
                      HttpStatusCode.INTERNAL_SERVER_ERROR,
                      <<"An unexpected error occurred. Please try again later.">>, url)

\* the request identifier of requestLogging: the X-Request-ID header of the
\* request, or uuidv4() when there is none or an empty one; the clock
\* stands for the freshness of the generated identifier
requestId(supplied, clock) ==
  IF supplied \in {Undefined, ""} THEN "uuid-" \o ToString(clock) ELSE supplied

\* the request as requestLogging hands it on: the identifier written into
\* its x-request-id header, the header as it came kept for reference
Request(url, body, supplied, clock) ==
  [url |-> url, body |-> body, supplied |-> supplied,
   xRequestId |-> requestId(supplied, clock)]

\* the response after res.setHeader('X-Request-ID', requestId): nothing
\* written yet (written counts the bodies sent), no error handed on
Response(request) ==
  [headersSent |-> FALSE, xRequestId |-> request.xRequestId, written |-> 0, handedOn |-> <<>>]

\* meta with the identifier taken from no header
MetaOf_Unknown(request) == [version |-> "v1", requestId |-> "unknown"]

\* meta: {timestamp, version: 'v1', requestId: req.headers['x-request-id'] || 'unknown'}
MetaOf(request) ==
  [version |-> "v1",
   requestId |-> IF request.xRequestId \in {Undefined, ""} THEN "unknown"
                 ELSE request.xRequestId]

\* res.status(status).json(body)
Sent(response, status, body) ==
  [headersSent |-> TRUE, statusCode |-> status, body |-> body,
   xRequestId |-> response.xRequestId, written |-> response.written + 1,
   handedOn |-> response.handedOn]

\* an error handler that answers whether or not a response has gone out
errorHandler_AnswersAgain(error, request, response) ==
  TheOne({Sent(response, apiError.status,
               [error |-> apiError, meta |-> MetaOf(request)]) :
            apiError \in {ApiErrorOf(error, request.url)}})

\* errorHandler(error, req, res, next): the response as the handler leaves it
\* (with a response already sent, return next(error): nothing is written and
\* the error is handed on)
errorHandler(error, request, response) ==
  IF response.headersSent
    THEN [response EXCEPT !.handedOn = Append(@, error)]
    ELSE TheOne({Sent(response, apiError.status,
                      [error |-> apiError, meta |-> MetaOf(request)]) :
                   apiError \in {ApiErrorOf(error, request.url)}})

\* ------------------------------------------------------------------ inputs
Temperature(value, unit) == [value |-> value, unit |-> unit]

ConversionRequests ==
  [temperature : {Temperature(v, u) : v \in Values, u \in Units},
   targetUnit : Units, precision : Precisions]

BatchItems ==
  {Temperature(Dec(0), "celsius"), Temperature(Dec(25123456), "celsius"),
   Temperature(Dec(-1000000), "kelvin"), Temperature(Dec(212000000), "fahrenheit"),
   Temperature(NaN, "celsius"), Temperature(Dec(25000000), "rankine")}

RECURSIVE SeqsUpTo(_, _)
SeqsUpTo(S, n) ==
  IF n = 0
    THEN {<<>>}
    ELSE LET shorter == SeqsUpTo(S, n - 1)
         IN  shorter \cup {Append(s, x) : s \in {t \in shorter : Len(t) = n - 1}, x \in S}

BatchConversionRequests ==
  [temperatures : SeqsUpTo(BatchItems, MaxBatch),
   targetUnit : Units, precision : Precisions]

Elapsed == {Dec(0), Dec(400), Dec(500)}

\* ----------------------------------------------------------- state machine
\* call    : the invocation whose outcome the caller holds (NoCall: none)
\* outcome : what that invocation returned or threw
\* now     : the wall clock read by new Date()
\* req     : the HTTP request being answered (NoRequest: none)
\* res     : the HTTP response to it
\* frames  : the activation of the service in each request handler, when the
\*           calls are followed statement by statement
\* server  : the HTTP server and the process it runs in

\* the request object with a field overwritten by the call
requestAfter_TargetErased(request) == [request EXCEPT !.targetUnit = Undefined]

\* what the request object holds when the call has ended: convert and
\* batchConvert read its fields and assign to none of them
requestAfter(request) == request

\* no call in progress; a call in progress records the request as supplied
\* and the request object as the call left it
NoCall == [op |-> "none"]

NoOutcome == [kind |-> "none"]

NoRequest == [url |-> "none"]

\* no activation followed
NoFrames == <<>>

\* the connections a client may open
MaxConnections == 3

Connections == 1..MaxConnections

\* the server after app.listen: accepting connections, none open, no signal
\* received (signals holds the signals whose handler has called
\* server.close), the process running
Listening ==
  [accepting |-> TRUE, conns |-> [c \in Connections |-> "closed"], signals |-> {},
   exited |-> FALSE, exitCode |-> -1]

\* the response before anything is written to it
NoResponse == [headersSent |-> FALSE]

Init ==
  /\ call = NoCall
  /\ outcome = NoOutcome
  /\ now = 0
  /\ req = NoRequest
  /\ res = NoResponse
  /\ frames = NoFrames
  /\ server = Listening

Convert ==
  /\ call = NoCall
  /\ now < MaxClock
  /\ \E request \in ConversionRequests :
       /\ call' = [op |-> "convert", request |-> request, after |-> requestAfter(request)]
       /\ outcome' = convert(request, now)
  /\ now' = now + 1
  /\ UNCHANGED <<req, res, frames, server>>

BatchConvert ==
  /\ call = NoCall
  /\ now < MaxClock
  /\ \E request \in BatchConversionRequests, elapsed \in Elapsed :
       /\ call' = [op |-> "batchConvert", request |-> request,
                    after |-> requestAfter(request)]
       /\ outcome' = batchConvert(request, now, elapsed)
  /\ now' = now + 1
  /\ UNCHANGED <<req, res, frames, server>>

\* the request that feeds the converted value of the call just returned back
\* into convert, towards the unit it came from, under the same precision
BackRequest ==
  [temperature |-> Temperature(outcome.value.converted.value, outcome.value.converted.unit),
   targetUnit |-> call.request.temperature.unit,
   precision |-> call.request.precision]

\* the caller converts the result of a successful conversion between two
\* different units back; origin is the request of the first conversion
ConvertBack ==
  /\ call.op = "convert"
  /\ "origin" \notin DOMAIN call
  /\ outcome.kind = "ok"
  /\ call.request.temperature.unit # call.request.targetUnit
  /\ now < MaxClock
  /\ call' = [op |-> "convert", request |-> BackRequest, origin |-> call.request,
               after |-> requestAfter(BackRequest)]
  /\ outcome' = convert(BackRequest, now)
  /\ now' = now + 1
  /\ UNCHANGED <<req, res, frames, server>>

\* the caller makes the call it has just made once more, with the same
\* request; first is the outcome of the first of the two calls
Repeat ==
  /\ call.op \in {"convert", "batchConvert"}
  /\ "first" \notin DOMAIN call
  /\ "origin" \notin DOMAIN call
  /\ now < MaxClock
  /\ call' = [op |-> call.op, request |-> call.request,
               after |-> requestAfter(call.request), first |-> outcome]
  /\ \E elapsed \in Elapsed :
       outcome' = IF call.op = "convert"
                    THEN convert(call.request, now)
                    ELSE batchConvert(call.request, now, elapsed)
  /\ now' = now + 1
  /\ UNCHANGED <<req, res, frames, server>>

\* the caller has sent the result (or handed the error on); the result is
\* request-scoped and nothing of it is retained
Complete ==
  /\ call # NoCall
  /\ call' = NoCall
  /\ outcome' = NoOutcome
  /\ UNCHANGED <<now, req, res, frames, server>>

Next == Convert \/ BatchConvert \/ ConvertBack \/ Repeat \/ Complete

Spec == Init /\ [][Next]_vars

\* ------------------------------------------------- calls over the whole range
\* convert called with values from the whole range of finite numbers: values
\* near the largest finite number (about 1.797e308) besides everyday ones
\* and the absolute zeros
WideValues ==
  {ParseDecimal(FALSE, <<1>>, -308), ParseDecimal(FALSE, <<17>>, -307),
   ParseDecimal(TRUE, <<1>>, -308), Dec(0), Dec(25123456), Dec(100000000),
   Dec(-273150000), Dec(-459670000)}

WideRequests ==
  [temperature : {Temperature(v, u) : v \in WideValues, u \in TemperatureUnit},
   targetUnit : TemperatureUnit, precision : Precisions]

\* (the calls all fall within one reading of the clock)
ConvertWide ==
  /\ call = NoCall
  /\ \E request \in WideRequests :
       /\ call' = [op |-> "convert", request |-> request, after |-> requestAfter(request)]
       /\ outcome' = convert(request, now)
  /\ UNCHANGED <<now, req, res, frames, server>>

RangeNext == ConvertWide \/ Complete

RangeSpec == Init /\ [][RangeNext]_vars

\* ------------------------------------------------- the formulas in exact arithmetic
\* The conversion formulas evaluated over the rational numbers instead of
\* binary64: a rational is [n, d], n / d in lowest terms with d > 0.
RECURSIVE GCD(_, _)
GCD(a, b) == IF b = 0 THEN a ELSE GCD(b, a % b)

Q(n, d) ==
  TheOne({[n |-> n \div g, d |-> d \div g] : g \in {GCD(IF n < 0 THEN -n ELSE n, d)}})

QAdd(x, y) == Q(x.n * y.d + y.n * x.d, x.d * y.d)
QSub(x, y) == Q(x.n * y.d - y.n * x.d, x.d * y.d)
QMul(x, y) == Q(x.n * y.n, x.d * y.d)

\* convertToKelvin with 273.16 for 273.15
convertToKelvinExact_WrongOffset(value, fromUnit) ==
  CASE fromUnit = "kelvin" -> value
    [] fromUnit = "celsius" -> QAdd(value, Q(27316, 100))
    [] fromUnit = "fahrenheit" -> QMul(QAdd(value, Q(45967, 100)), Q(5, 9))

\* value + 273.15 and (value + 459.67) * (5 / 9)
convertToKelvinExact(value, fromUnit) ==
  CASE fromUnit = "kelvin" -> value
    [] fromUnit = "celsius" -> QAdd(value, Q(27315, 100))
    [] fromUnit = "fahrenheit" -> QMul(QAdd(value, Q(45967, 100)), Q(5, 9))

\* kelvinValue - 273.15 and (kelvinValue * (9 / 5)) - 459.67
convertFromKelvinExact(kelvinValue, toUnit) ==
  CASE toUnit = "kelvin" -> kelvinValue
    [] toUnit = "celsius" -> QSub(kelvinValue, Q(27315, 100))
    [] toUnit = "fahrenheit" -> QSub(QMul(kelvinValue, Q(9, 5)), Q(45967, 100))

performConversionExact(value, fromUnit, toUnit) ==
  IF fromUnit = toUnit
    THEN value
    ELSE convertFromKelvinExact(convertToKelvinExact(value, fromUnit), toUnit)

\* the documented TemperatureService: (celsius * 9 / 5) + 32, celsius + 273.15
celsiusToFahrenheit(celsius) == QAdd(QMul(celsius, Q(9, 5)), Q(32, 1))

celsiusToKelvin(celsius) == QAdd(celsius, Q(27315, 100))

\* (value - 32) * 5 / 9 and value - 273.15
toCelsius(value, unit) ==
  CASE unit = "celsius" -> value
    [] unit = "fahrenheit" -> QMul(QSub(value, Q(32, 1)), Q(5, 9))
    [] unit = "kelvin" -> QSub(value, Q(27315, 100))

fromCelsius(celsius, unit) ==
  CASE unit = "celsius" -> celsius
    [] unit = "fahrenheit" -> celsiusToFahrenheit(celsius)
    [] unit = "kelvin" -> celsiusToKelvin(celsius)

\* TemperatureService.convert: fromCelsius(toCelsius(value, from), to)
TemperatureService_convert(value, from, to) == fromCelsius(toCelsius(value, from), to)

\* the inputs, in hundredths: the absolute zeros, the fixed points of water,
\* -40 and values with decimals
ExactValues ==
  {Q(n, 100) : n \in {-45967, -27315, -4000, -1776, -1, 0, 1, 10, 2512, 3200, 3700,
                      9860, 10000, 21200, 27315, 27316, 37315, 45967, 49167, 51243}}

\* not below absolute zero in its unit
ValidExact(value, unit) ==
  CASE unit = "kelvin" -> value.n >= 0
    [] unit = "celsius" -> QSub(value, Q(-27315, 100)).n >= 0
    [] unit = "fahrenheit" -> QSub(value, Q(-45967, 100)).n >= 0

\* performConversion on a valid value, in exact arithmetic
PerformExact ==
  /\ \E value \in ExactValues, fromUnit \in TemperatureUnit, toUnit \in TemperatureUnit :
       /\ ValidExact(value, fromUnit)
       /\ call' = [op |-> "performConversion", value |-> value, fromUnit |-> fromUnit,
                    toUnit |-> toUnit]
       /\ outcome' = Return(performConversionExact(value, fromUnit, toUnit))
  /\ UNCHANGED <<now, req, res, frames, server>>

ExactSpec == Init /\ [][PerformExact]_vars

\* ---------------------------------------------------------------- HTTP layer
\* the bodies sent to POST /convert
JsonNumbers ==
  {JNumber(Dec(25000000)), JNumber(Dec(25123456)), JNumber(Dec(-500000000)),
   JNumber(PosInfinity), JString("invalid"), JNumeral("25", Dec(25000000)),
   JNull, JMissing}

JsonUnits == {JString("celsius"), JString("kelvin"), JString("invalid_unit"), JMissing}

JsonTemperatures ==
  {JObject(v, u, p) : v \in JsonNumbers, u \in JsonUnits,
                      p \in {JMissing, JString("medical"), JString("exact")}}
  \cup {JNoObject}

ConversionBodies ==
  [temperature : JsonTemperatures,
   targetUnit : {JString("fahrenheit"), JString("celsius"), JString("rankine"), JMissing},
   precision : {JMissing, JString("consumer"), JString("scientific"), JString("exact")}]

\* the bodies sent to POST /convert/batch: short arrays of every make-up and
\* arrays at and beyond the upper limit of the schema
JsonItem == JObject(JNumber(Dec(25000000)), JString("celsius"), JMissing)

JsonItems ==
  {JsonItem,
   JObject(JNumber(Dec(25123456)), JString("celsius"), JString("medical")),
   JObject(JNumber(Dec(-1000000)), JString("kelvin"), JMissing),
   JObject(JString("invalid"), JString("celsius"), JMissing),
   JObject(JNumber(Dec(212000000)), JString("invalid_unit"), JMissing)}

Repeated(item, n) == [i \in 1..n |-> item]

JsonArrays ==
  {JArray(items) : items \in SeqsUpTo(JsonItems, MaxBatch)}
  \cup {JArray(Repeated(JsonItem, MaxTemperatures)),
        JArray(Repeated(JsonItem, MaxTemperatures + 1)),
        JNoArray}

BatchBodies ==
  [temperatures : JsonArrays,
   targetUnit : {JString("fahrenheit"), JString("rankine"), JMissing},
   precision : {JMissing, JString("consumer"), JString("exact")}]

\* the errors a handler of the application can hand to next(error) besides
\* those of the two controller methods below: every error the service
\* raises, an operational AppError and an error of an unforeseen kind
ThrownErrors ==
  {v.error : v \in {w \in {validateTemperature(t) : t \in BatchItems} : w.kind = "error"}}
  \cup {UnsupportedUnitError("rankine"),
        AppError(<<"Service temporarily unavailable">>, HttpStatusCode.SERVICE_UNAVAILABLE),
        [name |-> "TypeError", code |-> Undefined, field |-> Undefined, value |-> Undefined,
         message |-> <<"Cannot read properties of undefined">>]}

\* the X-Request-ID header of the request: absent, empty or an identifier
SuppliedIds == {Undefined, "", "test-request-123"}

\* the engine invocation a controller method makes with a validated request
\* (none when validateRequest throws)
Invocation(op, validatedRequest) ==
  IF validatedRequest.kind = "ok"
    THEN [op |-> op, request |-> validatedRequest.value,
          after |-> requestAfter(validatedRequest.value)]
    ELSE NoCall

\* res.status(HttpStatusCode.OK).json(response), or next(error) from the
\* catch block, which Express answers with errorHandler
Respond(result, request) ==
  IF result.kind = "ok"
    THEN Sent(Response(request), HttpStatusCode.OK,
              [data |-> result.value, meta |-> MetaOf(request)])
    ELSE errorHandler(result.error, request, Response(request))

\* POST /api/v1/temperature/convert
convertTemperature ==
  /\ req = NoRequest
  /\ call = NoCall
  /\ now < MaxClock
  /\ \E body \in ConversionBodies, supplied \in SuppliedIds :
       \E validatedRequest \in {validateRequest(conversionRequestSchema(body))} :
         \E result \in {IF validatedRequest.kind = "ok"
                          THEN convert(validatedRequest.value, now)
                          ELSE validatedRequest} :
           /\ req' = Request("/convert", body, supplied, now)
           /\ call' = Invocation("convert", validatedRequest)
           /\ outcome' = IF validatedRequest.kind = "ok" THEN result ELSE NoOutcome
           /\ res' = Respond(result, Request("/convert", body, supplied, now))
  /\ now' = now + 1
  /\ UNCHANGED <<frames, server>>

\* POST /api/v1/temperature/convert/batch
convertTemperatureBatch ==
  /\ req = NoRequest
  /\ call = NoCall
  /\ now < MaxClock
  /\ \E body \in BatchBodies, elapsed \in Elapsed, supplied \in SuppliedIds :
       \E validatedRequest \in {validateRequest(batchConversionRequestSchema(body))} :
         \E result \in {IF validatedRequest.kind = "ok"
                          THEN batchConvert(validatedRequest.value, now, elapsed)
                          ELSE validatedRequest} :
           /\ req' = Request("/convert/batch", body, supplied, now)
           /\ call' = Invocation("batchConvert", validatedRequest)
           /\ outcome' = IF validatedRequest.kind = "ok" THEN result ELSE NoOutcome
           /\ res' = Respond(result, Request("/convert/batch", body, supplied, now))
  /\ now' = now + 1
  /\ UNCHANGED <<frames, server>>

\* another handler of the application hands an error to next(error) and
\* Express answers with errorHandler; outcome is what the handler threw
HandleThrown ==
  /\ req = NoRequest
  /\ call = NoCall
  /\ now < MaxClock
  /\ \E error \in ThrownErrors, supplied \in SuppliedIds :
       \E request \in {Request("/other", JMissing, supplied, now)} :
         /\ req' = request
         /\ outcome' = Throw(error)
         /\ res' = errorHandler(error, request, Response(request))
  /\ UNCHANGED <<call, frames, server>>
  /\ now' = now + 1

\* the response has gone out (res 'finish') and the request is over
Finish ==
  /\ req # NoRequest
  /\ req' = NoRequest
  /\ res' = NoResponse
  /\ call' = NoCall
  /\ outcome' = NoOutcome
  /\ UNCHANGED <<now, frames, server>>

\* the errors raised while or after a response goes out
LateErrors ==
  {AppError(<<"Service temporarily unavailable">>, HttpStatusCode.SERVICE_UNAVAILABLE),
   [name |-> "TypeError", code |-> Undefined, field |-> Undefined, value |-> Undefined,
    message |-> <<"Cannot read properties of undefined">>]}

\* an error reaches next(error) after the response of the request was sent
\* (res.json inside the try block of a controller fails once the headers
\* are out): Express calls errorHandler with the response as it is
ThrownAfterSent ==
  /\ req # NoRequest
  /\ res.headersSent
  /\ res.handedOn = <<>>
  /\ \E error \in LateErrors : res' = errorHandler(error, req, res)
  /\ UNCHANGED <<call, outcome, now, req, frames, server>>

HttpNext ==
  convertTemperature \/ convertTemperatureBatch \/ HandleThrown \/ ThrownAfterSent \/ Finish

HttpSpec == Init /\ [][HttpNext]_vars

\* ------------------------------------------------- calls statement by statement
\* Several request handlers call the service and their calls are followed
\* one statement at a time, in any interleaving.  frames[h] is the activation
\* of handler h: the operation and its request, the index i of the item
\* convert is working on, the locals kelvinValue and convertedValue, the
\* results so far, the statements evaluated so far (log) and the outcome.
MaxHandlers == 2

Handlers == 1..MaxHandlers

IdleFrame ==
  [pc |-> "idle", op |-> "none", request |-> Undefined, i |-> 0, kelvinValue |-> NaN,
   convertedValue |-> NaN, conversions |-> <<>>, log |-> <<>>, outcome |-> NoOutcome]

\* the calls followed: single conversions and batches of every outcome
StepRequests ==
  {[op |-> "convert", request |-> r] :
     r \in {[temperature |-> Temperature(Dec(25123456), "celsius"),
             targetUnit |-> "fahrenheit", precision |-> "consumer"],
            [temperature |-> Temperature(Dec(25123456), "celsius"),
             targetUnit |-> "celsius", precision |-> Undefined],
            [temperature |-> Temperature(NaN, "celsius"),
             targetUnit |-> "kelvin", precision |-> Undefined],
            [temperature |-> Temperature(Dec(212000000), "fahrenheit"),
             targetUnit |-> "rankine", precision |-> "industrial"]}}
  \cup
  {[op |-> "batchConvert", request |-> r] :
     r \in {[temperatures |-> <<Temperature(Dec(0), "celsius"),
                                Temperature(Dec(212000000), "fahrenheit")>>,
             targetUnit |-> "kelvin", precision |-> "consumer"],
            [temperatures |-> <<Temperature(Dec(25123456), "celsius"),
                                Temperature(Dec(-1000000), "kelvin"),
                                Temperature(NaN, "celsius")>>,
             targetUnit |-> "fahrenheit", precision |-> Undefined]}}

\* the request of the item with its value rounded to the precision context
\* before any formula sees it
RequestOf_RoundedInput(f) ==
  [temperature |->
     [(IF f.op = "convert" THEN f.request.temperature ELSE f.request.temperatures[f.i])
        EXCEPT !.value = applyPrecision(@, EffectivePrecision(f.request.precision))],
   targetUnit |-> f.request.targetUnit,
   precision |-> f.request.precision]

\* the ConversionRequest convert is working on: the request itself, or the
\* conversionRequest batchConvert builds for item i
RequestOf(f) ==
  IF f.op = "convert"
    THEN f.request
    ELSE [temperature |-> f.request.temperatures[f.i],
          targetUnit |-> f.request.targetUnit,
          precision |-> f.request.precision]

\* the local kelvinValue with a field shared by every activation in its
\* place: the value the first handler left there
kelvinValue_Shared(fs, h) == fs[1].kelvinValue

\* const kelvinValue of the activation of h
kelvinValue(fs, h) == fs[h].kelvinValue

Logged(f, step) == Append(f.log, [step |-> step, i |-> f.i])

\* a throw caught per item: the batch keeps the first failure and goes on
\* with the items after it
Thrown_CaughtPerItem(f, step, thrown) ==
  IF f.op = "batchConvert" /\ f.i < Len(f.request.temperatures)
    THEN [f EXCEPT !.pc = "validate", !.i = f.i + 1, !.log = Logged(f, step)]
    ELSE [f EXCEPT !.pc = "done", !.log = Logged(f, step), !.outcome = thrown]

\* the activation after a throw: the exception leaves convert and, in a
\* batch, the map and batchConvert
Thrown(f, step, thrown) ==
  [f EXCEPT !.pc = "done", !.log = Logged(f, step), !.outcome = thrown]

\* a handler calls convert or batchConvert (the calls followed all fall
\* within one reading of the clock)
Invoke(h) ==
  /\ frames[h].pc = "idle"
  /\ \E c \in StepRequests :
       frames' = [frames EXCEPT ![h] = [IdleFrame EXCEPT !.pc = "validate", !.op = c.op,
                                                         !.request = c.request, !.i = 1]]
  /\ UNCHANGED <<call, outcome, now, req, res, server>>

\* this.validateTemperature(request.temperature)
StepValidate(h) ==
  /\ frames[h].pc = "validate"
  /\ \E valid \in {validateTemperature(RequestOf(frames[h]).temperature)} :
       frames' = [frames EXCEPT ![h] =
                    IF valid.kind = "error"
                      THEN Thrown(@, "validate", valid)
                      ELSE [@ EXCEPT !.pc = "toKelvin", !.log = Logged(frames[h], "validate")]]
  /\ UNCHANGED <<call, outcome, now, req, res, server>>

\* performConversion up to const kelvinValue: the same-unit return, or
\* this.convertToKelvin(value, fromUnit)
StepToKelvin(h) ==
  /\ frames[h].pc = "toKelvin"
  /\ \E r \in {RequestOf(frames[h])} :
       IF r.temperature.unit = r.targetUnit
         THEN frames' = [frames EXCEPT ![h] =
                           [@ EXCEPT !.pc = "round", !.convertedValue = r.temperature.value,
                                     !.log = Logged(frames[h], "sameUnit")]]
         ELSE \E k \in {convertToKelvin(r.temperature.value, r.temperature.unit)} :
                frames' = [frames EXCEPT ![h] =
                             IF k.kind = "error"
                               THEN Thrown(@, "toKelvin", k)
                               ELSE [@ EXCEPT !.pc = "fromKelvin", !.kelvinValue = k.value,
                                              !.log = Logged(frames[h], "toKelvin")]]
  /\ UNCHANGED <<call, outcome, now, req, res, server>>

\* return this.convertFromKelvin(kelvinValue, toUnit)
StepFromKelvin(h) ==
  /\ frames[h].pc = "fromKelvin"
  /\ \E c \in {convertFromKelvin(kelvinValue(frames, h), RequestOf(frames[h]).targetUnit)} :
       frames' = [frames EXCEPT ![h] =
                    IF c.kind = "error"
                      THEN Thrown(@, "fromKelvin", c)
                      ELSE [@ EXCEPT !.pc = "round", !.convertedValue = c.value,
                                     !.log = Logged(frames[h], "fromKelvin")]]
  /\ UNCHANGED <<call, outcome, now, req, res, server>>

\* the ConversionResponse convert returns for the item, and after the last
\* item what the operation returns
Returned(f, result, clock, elapsed) ==
  IF f.op = "convert"
    THEN [f EXCEPT !.pc = "done", !.log = Logged(f, "round"), !.outcome = Return(result)]
    ELSE IF f.i < Len(f.request.temperatures)
      THEN [f EXCEPT !.pc = "validate", !.i = f.i + 1, !.log = Logged(f, "round"),
                     !.conversions = Append(f.conversions, result)]
      ELSE [f EXCEPT !.pc = "done", !.log = Logged(f, "round"),
                     !.conversions = Append(f.conversions, result),
                     !.outcome = Return([conversions |-> Append(f.conversions, result),
                                         totalCount |-> Len(f.conversions) + 1,
                                         processingTimeMs |-> RoundToDecimals(elapsed, 1000),
                                         timestamp |-> clock])]

\* const roundedValue = this.applyPrecision(convertedValue, precision) and
\* the return of convert
StepRound(h) ==
  /\ frames[h].pc = "round"
  /\ \E r \in {RequestOf(frames[h])}, elapsed \in Elapsed :
       \E precision \in {EffectivePrecision(r.precision)} :
         frames' = [frames EXCEPT ![h] =
                      Returned(@, [original |-> r.temperature,
                                   converted |->
                                     [value |-> applyPrecision(@.convertedValue, precision),
                                      unit |-> r.targetUnit,
                                      precision |-> precision],
                                   precision |-> precision,
                                   timestamp |-> now,
                                   conversionMethod |->
                                     conversionMethod(r.temperature.unit, r.targetUnit)],
                               now, elapsed)]
  /\ UNCHANGED <<call, outcome, now, req, res, server>>

\* the handler has its result or its exception and is free for another call
StepReturn(h) ==
  /\ frames[h].pc = "done"
  /\ frames' = [frames EXCEPT ![h] = IdleFrame]
  /\ UNCHANGED <<call, outcome, now, req, res, server>>

StepInit ==
  /\ call = NoCall
  /\ outcome = NoOutcome
  /\ now = 0
  /\ req = NoRequest
  /\ res = NoResponse
  /\ frames = [h \in Handlers |-> IdleFrame]
  /\ server = Listening

StepNext ==
  \E h \in Handlers :
    \/ Invoke(h)
    \/ StepValidate(h)
    \/ StepToKelvin(h)
    \/ StepFromKelvin(h)
    \/ StepRound(h)
    \/ StepReturn(h)

StepSpec == StepInit /\ [][StepNext]_vars

\* ------------------------------------------------------------ server lifecycle
\* The process of index.ts: the listening server, the connections of its
\* clients (closed, idle or with a request being served), the two signal
\* handlers and the callback of server.close.

\* a client connects: the server takes connections only while listening
Connect(c) ==
  /\ ~server.exited
  /\ server.accepting
  /\ server.conns[c] = "closed"
  /\ server' = [server EXCEPT !.conns[c] = "idle"]
  /\ UNCHANGED <<call, outcome, now, req, res, frames>>

\* a request arrives on an open connection (server.close keeps the
\* connections that exist)
Receive(c) ==
  /\ ~server.exited
  /\ server.conns[c] = "idle"
  /\ server' = [server EXCEPT !.conns[c] = "serving"]
  /\ UNCHANGED <<call, outcome, now, req, res, frames>>

\* the handlers run to completion and the response goes out
Answer(c) ==
  /\ ~server.exited
  /\ server.conns[c] = "serving"
  /\ server' = [server EXCEPT !.conns[c] = "idle"]
  /\ UNCHANGED <<call, outcome, now, req, res, frames>>

\* an idle connection ends: the client closes it or the keep-alive timeout
\* of the server does
Disconnect(c) ==
  /\ ~server.exited
  /\ server.conns[c] = "idle"
  /\ server' = [server EXCEPT !.conns[c] = "closed"]
  /\ UNCHANGED <<call, outcome, now, req, res, frames>>

\* every connection has ended: the server emits 'close'
Drained(s) == \A c \in Connections : s.conns[c] = "closed"

\* process.on('SIGTERM' / 'SIGINT'): server.close(callback) stops the server
\* from accepting and registers the callback for 'close'
Signal(signal) ==
  /\ ~server.exited
  /\ server' = [server EXCEPT !.accepting = FALSE, !.signals = @ \cup {signal}]
  /\ UNCHANGED <<call, outcome, now, req, res, frames>>

\* the callback of server.close: process.exit(0)
Closed ==
  /\ ~server.exited
  /\ server.signals # {}
  /\ Drained(server)
  /\ server' = [server EXCEPT !.exited = TRUE, !.exitCode = 0]
  /\ UNCHANGED <<call, outcome, now, req, res, frames>>

ServerNext ==
  \/ \E c \in Connections : Connect(c) \/ Receive(c) \/ Answer(c) \/ Disconnect(c)
  \/ \E signal \in {"SIGTERM", "SIGINT"} : Signal(signal)
  \/ Closed

\* what the program and its runtime do by themselves: a request being served
\* is answered (the handlers are synchronous), a connection left idle is
\* closed by the keep-alive timeout, and the callback of server.close runs
\* once the server has closed
ServerSpec ==
  /\ Init
  /\ [][ServerNext]_vars
  /\ \A c \in Connections : WF_vars(Answer(c)) /\ WF_vars(Disconnect(c))
  /\ WF_vars(Closed)

\* ============================================================ properties
\* vocabulary of the properties, stated independently of the service code
IsConvert == call.op = "convert"

IsBatch == call.op = "batchConvert"

Succeeded == outcome.kind = "ok"

Failed == outcome.kind = "error"

FailedWith(code) == Failed /\ outcome.error.code = code

Recognized(unit) == unit \in {"celsius", "fahrenheit", "kelvin"}

\* the lowest value a recognized unit admits
\* 0 K, -273.15 C, -459.67 F
LowestKelvin == Dec(0)

LowestCelsius == Dec(-273150000)

LowestFahrenheit == Dec(-459670000)

LowestOf(unit) ==
  IF unit = "kelvin" THEN LowestKelvin
  ELSE IF unit = "celsius" THEN LowestCelsius
  ELSE LowestFahrenheit

BelowLowest(t) ==
  Recognized(t.unit) /\ isFinite(t.value) /\ FLess(t.value, LowestOf(t.unit))

\* a TemperatureValue that passes all three checks
ValidInput(t) ==
  isFinite(t.value) /\ Recognized(t.unit) /\ ~FLess(t.value, LowestOf(t.unit))

\* the precision context in force when the request names none
EffectiveOf(p) == IF p = "undefined" THEN "scientific" ELSE p

\* the decimal places a precision context keeps (Scientific keeps
\* significant digits instead)
DecimalsOf(p) ==
  IF p = "consumer" THEN 2 ELSE IF p = "medical" THEN 3 ELSE 4

\* |x - y|, exactly, in units of 2^-FracBits
Dist(x, y) ==
  IF x.neg # y.neg THEN BAdd(x.m, y.m)
  ELSE IF BCmp(x.m, y.m) >= 0 THEN BSub(x.m, y.m)
  ELSE BSub(y.m, x.m)

\* half of 10^-d, and the allowance made for the representation error of
\* binary64 at the magnitudes of a temperature (10^-9)
HalfStep(d) == BDivPow10(Half, d, 0).q

Tolerance == BDivPow10(One, 9, 0).q

\* the number nearest to x among those written with d decimal places
NearestDecimal(x, d) == ParseDecimal(x.neg, RoundHalfUpScaled(x.m, d), d)

\* the number nearest to x among those written with n significant digits
NearestSignificant(x, n) ==
  IF x.m = <<>>
    THEN x
    ELSE NearestDecimal(x, n - 1 - DecExp(x.m, DecExpBelow(x.m)))

\* r is u rounded by the rule of precision context p
Rounded(r, u, p) ==
  IF p = "scientific"
    THEN r = NearestSignificant(u, 15)
    ELSE /\ r = NearestDecimal(r, DecimalsOf(p))
         /\ BCmp(Dist(r, u), BAdd(HalfStep(DecimalsOf(p)), Tolerance)) <= 0

\* x has no digit beyond those precision context p keeps
KeepsAll(x, p) ==
  IF p = "scientific"
    THEN x = NearestSignificant(x, 15)
    ELSE x = NearestDecimal(x, DecimalsOf(p))

IsSameUnitCall ==
  /\ IsConvert
  /\ ValidInput(call.request.temperature)
  /\ call.request.targetUnit = call.request.temperature.unit

BelowOverflow(x) == BBitLen(x.m) <= FracBits + 1000

C2_InvalidUnit ==
  ( /\ IsConvert
    /\ isFinite(call.request.temperature.value)
    /\ ~BelowLowest(call.request.temperature)
    /\ (~Recognized(call.request.temperature.unit) \/ ~Recognized(call.request.targetUnit)) )
  => FailedWith("INVALID_TEMPERATURE_UNIT")

\* the error of the earliest violated check, in the order finite value,
\* unit membership (source and target), absolute zero
EarliestViolation(request) ==
  IF ~isFinite(request.temperature.value) THEN "INVALID_TEMPERATURE_VALUE"
  ELSE IF ~Recognized(request.temperature.unit) \/ ~Recognized(request.targetUnit)
         THEN "INVALID_TEMPERATURE_UNIT"
  ELSE IF BelowLowest(request.temperature) THEN "BELOW_ABSOLUTE_ZERO"
  ELSE "none"

ViolationCount(request) ==
  (IF ~isFinite(request.temperature.value) THEN 1 ELSE 0)
  + (IF ~Recognized(request.temperature.unit) \/ ~Recognized(request.targetUnit)
       THEN 1 ELSE 0)
  + (IF BelowLowest(request.temperature) THEN 1 ELSE 0)

\* C3: for a request that violates more than one check, convert raises the
\* error of the earliest violated check (finite value, then unit membership
\* of source and target, then absolute zero).
C3_FailFastOrder ==
  (IsConvert /\ ViolationCount(call.request) > 1)
  => FailedWith(EarliestViolation(call.request))

\* C4: for a finite value and a recognized source unit, convert fails with
\* BELOW_ABSOLUTE_ZERO exactly when the value is strictly below the
\* absolute-zero constant of the source unit, whatever the target unit and
\* the precision context.
C4_BelowAbsoluteZeroIff ==
  ( /\ IsConvert
    /\ isFinite(call.request.temperature.value)
    /\ Recognized(call.request.temperature.unit) )
  => ( FailedWith("BELOW_ABSOLUTE_ZERO")
       <=> FLess(call.request.temperature.value,
                 LowestOf(call.request.temperature.unit)) )

\* a value exactly at absolute zero has been accepted and converted
C4_Witness ==
  /\ IsConvert
  /\ call.request.temperature = Temperature(Dec(-273150000), "celsius")
  /\ call.request.targetUnit = "kelvin"
  /\ Succeeded
  /\ outcome.value.converted.value = Dec(0)

\* C5: convert fails with INVALID_TEMPERATURE_VALUE for every value that is
\* NaN, +Infinity or -Infinity, whatever the units and the precision context.
C5_NonFiniteRejected ==
  (IsConvert /\ ~isFinite(call.request.temperature.value))
  => FailedWith("INVALID_TEMPERATURE_VALUE")

\* -Infinity with an unrecognized source unit has been rejected for its value
C5_Witness ==
  /\ IsConvert
  /\ call.request.temperature = Temperature(NegInfinity, "rankine")
  /\ FailedWith("INVALID_TEMPERATURE_VALUE")

\* ------------------------------------------------------------------ batches
Items == call.request.temperatures

HasInvalidItem == \E i \in 1..Len(Items) : ~ValidInput(Items[i])

FirstInvalid ==
  CHOOSE i \in 1..Len(Items) :
    ~ValidInput(Items[i]) /\ \A j \in 1..(i - 1) : ValidInput(Items[j])

\* the code of the first check an item violates
ItemViolation(t) ==
  IF ~isFinite(t.value) THEN "INVALID_TEMPERATURE_VALUE"
  ELSE IF ~Recognized(t.unit) THEN "INVALID_TEMPERATURE_UNIT"
  ELSE "BELOW_ABSOLUTE_ZERO"

\* C6: a batch with at least one invalid item fails as a whole: the caller
\* gets an error and no result, so neither a conversions list nor a
\* totalCount, wherever the invalid item stands.
C6_BatchAtomicity ==
  (IsBatch /\ HasInvalidItem)
  => (Failed /\ DOMAIN outcome = {"kind", "error"})

\* the invalid item is the last one, after an item that converts
C6_Witness ==
  /\ IsBatch
  /\ Len(Items) >= 2
  /\ ValidInput(Items[1])
  /\ Recognized(call.request.targetUnit)
  /\ ~ValidInput(Items[Len(Items)])
  /\ Failed

AllItemsValid == \A i \in 1..Len(Items) : ValidInput(Items[i])

\* C8: a batch of N >= 1 valid inputs (with a recognized target unit)
\* returns exactly N conversions, totalCount = N, and conversions[i].original
\* is input[i] for every i.
C8_BatchOrderPreserved ==
  ( /\ IsBatch
    /\ Len(Items) >= 1
    /\ AllItemsValid
    /\ Recognized(call.request.targetUnit) )
  => /\ Succeeded
     /\ Len(outcome.value.conversions) = Len(Items)
     /\ outcome.value.totalCount = Len(Items)
     /\ \A i \in 1..Len(Items) : outcome.value.conversions[i].original = Items[i]

\* two different valid items have been converted
C8_Witness ==
  /\ IsBatch
  /\ Len(Items) >= 2
  /\ AllItemsValid
  /\ Items[1] # Items[2]
  /\ Succeeded
  /\ outcome.value.conversions[2].original = Items[2]

\* what convert alone returns for item i of the batch, called with the
\* batch's target unit and precision context
AloneOf(i) ==
  convert([temperature |-> Items[i],
           targetUnit |-> call.request.targetUnit,
           precision |-> call.request.precision], 0)

SameButTimestamp(a, b) ==
  /\ a.original = b.original
  /\ a.converted = b.converted
  /\ a.precision = b.precision
  /\ a.conversionMethod = b.conversionMethod

\* C9: every conversions[i] of a successful batch has the original, the
\* converted value, unit and precision, the precision and the method label
\* that convert alone returns for input[i] with the batch's target unit and
\* precision context.
C9_BatchIsItemwiseConvert ==
  (IsBatch /\ Succeeded)
  => /\ Len(outcome.value.conversions) = Len(Items)
     /\ \A i \in 1..Len(Items) :
          /\ AloneOf(i).kind = "ok"
          /\ SameButTimestamp(outcome.value.conversions[i], AloneOf(i).value)

\* an item with digits to discard has been converted under Consumer precision
C9_Witness ==
  /\ IsBatch
  /\ Succeeded
  /\ call.request.precision = "consumer"
  /\ call.request.targetUnit = "fahrenheit"
  /\ Len(Items) >= 1
  /\ Items[Len(Items)] = Temperature(Dec(25123456), "celsius")
  /\ outcome.value.conversions[Len(Items)].converted.value = Dec(77220000)

\* C10: batchConvert of an empty temperatures sequence raises no error and
\* returns an empty conversions sequence with totalCount 0.
C10_EmptyBatch ==
  (IsBatch /\ Items = <<>>)
  => /\ Succeeded
     /\ outcome.value.conversions = <<>>
     /\ outcome.value.totalCount = 0

C10_Witness ==
  /\ IsBatch
  /\ Items = <<>>
  /\ Succeeded
  /\ outcome.value.totalCount = 0

\* ---------------------------------------------------------------- precision
\* the value the conversion formula gives for t in targetUnit, before rounding
Unrounded(t, targetUnit) == performConversion(t.value, t.unit, targetUnit).value

\* C11: when the request (single or batch) names no precision context, the
\* result's precision field and converted.precision are both scientific and
\* the converted value is the unrounded value rounded to 15 significant
\* digits; in a batch this holds for every item.
C11_DefaultScientific ==
  /\ (IsConvert /\ Succeeded /\ call.request.precision = "undefined")
       => /\ outcome.value.precision = "scientific"
          /\ outcome.value.converted.precision = "scientific"
          /\ Rounded(outcome.value.converted.value,
                     Unrounded(call.request.temperature, call.request.targetUnit),
                     "scientific")
  /\ (IsBatch /\ Succeeded /\ call.request.precision = "undefined")
       => \A i \in 1..Len(Items) :
            /\ outcome.value.conversions[i].precision = "scientific"
            /\ outcome.value.conversions[i].converted.precision = "scientific"
            /\ Rounded(outcome.value.conversions[i].converted.value,
                       Unrounded(Items[i], call.request.targetUnit),
                       "scientific")

\* a batch of two items converted with no precision named
C11_Witness ==
  /\ IsBatch
  /\ Succeeded
  /\ call.request.precision = "undefined"
  /\ call.request.targetUnit = "fahrenheit"
  /\ Len(Items) = 2
  /\ outcome.value.conversions[2].precision = "scientific"

\* 25.123456 celsius converted to fahrenheit under precision context p
IsExampleCall(p) ==
  /\ IsConvert
  /\ call.request.temperature = Temperature(Dec(25123456), "celsius")
  /\ call.request.targetUnit = "fahrenheit"
  /\ call.request.precision = p

\* C12: the converted value is the unrounded value rounded by the rule of the
\* effective precision context (2, 3, 4 decimal places for Consumer, Medical,
\* Industrial; 15 significant digits for Scientific); 25.123456 celsius in
\* fahrenheit is 77.22 under Consumer, 77.222 under Medical and 77.2222 under
\* Industrial.
C12_RoundedByContext ==
  /\ (IsConvert /\ Succeeded)
       => Rounded(outcome.value.converted.value,
                  Unrounded(call.request.temperature, call.request.targetUnit),
                  EffectiveOf(call.request.precision))
  /\ IsExampleCall("consumer")
       => Succeeded /\ outcome.value.converted.value = Dec(77220000)
  /\ IsExampleCall("medical")
       => Succeeded /\ outcome.value.converted.value = Dec(77222000)
  /\ IsExampleCall("industrial")
       => Succeeded /\ outcome.value.converted.value = Dec(77222200)

C12_Witness ==
  /\ IsExampleCall("medical")
  /\ Succeeded
  /\ outcome.value.converted.value = Dec(77222000)

\* ---------------------------------------------------------- reference values
\* convert called with the value of literal n in fromUnit and target toUnit
IsCallOf(n, fromUnit, toUnit) ==
  /\ IsConvert
  /\ call.request.temperature = Temperature(Dec(n), fromUnit)
  /\ call.request.targetUnit = toUnit

\* the call has returned exactly the value of literal n, in unit toUnit
Gives(n, toUnit) ==
  /\ Succeeded
  /\ outcome.value.converted.value = Dec(n)
  /\ outcome.value.converted.unit = toUnit

\* C13: convert gives 0 C -> 32 F, 100 C -> 212 F, 0 C -> 273.15 K,
\* 273.15 K -> 0 C, 212 F -> 100 C and 32 F -> 0 C, each as an exact
\* equality of converted.value and with converted.unit the target unit,
\* whatever the precision context.
C13_ReferenceValues ==
  /\ IsCallOf(0, "celsius", "fahrenheit") => Gives(32000000, "fahrenheit")
  /\ IsCallOf(100000000, "celsius", "fahrenheit") => Gives(212000000, "fahrenheit")
  /\ IsCallOf(0, "celsius", "kelvin") => Gives(273150000, "kelvin")
  /\ IsCallOf(273150000, "kelvin", "celsius") => Gives(0, "celsius")
  /\ IsCallOf(212000000, "fahrenheit", "celsius") => Gives(100000000, "celsius")
  /\ IsCallOf(32000000, "fahrenheit", "celsius") => Gives(0, "celsius")

\* ----------------------------------------------------------------- round trip
\* the call converts back the result of a conversion of call.origin
IsBack == IsConvert /\ "origin" \in DOMAIN call

\* what the round trip may lose under precision context p: one and a half
\* units of the last decimal place kept (each of the two roundings gives up
\* half a unit, and the way back to Fahrenheit magnifies the first by 9/5),
\* and 10^-9 under Scientific
RoundTripBound(p) ==
  IF p = "scientific"
    THEN Tolerance
    ELSE BMulSmall(HalfStep(DecimalsOf(p)), 3)

\* C14 (as claimed): converting v from u to another unit w and the result
\* back from w to u under the same precision context recovers v within the
\* rounding error bound of the context, and recovers v exactly under
\* Scientific precision.
C14_RoundTripExact ==
  IsBack =>
    LET v == call.origin.temperature.value
        p == EffectiveOf(call.request.precision)
    IN  /\ Succeeded
        /\ BCmp(Dist(outcome.value.converted.value, v), RoundTripBound(p)) <= 0
        /\ (p = "scientific" => outcome.value.converted.value = v)

\* C14 (amended): the round trip recovers v within one and a half units of
\* the last decimal place the context keeps under Consumer, Medical and
\* Industrial, and within 10^-9 under Scientific, where it need not be exact.
C14_RoundTripWithin ==
  IsBack =>
    /\ Succeeded
    /\ BCmp(Dist(outcome.value.converted.value, call.origin.temperature.value),
            RoundTripBound(EffectiveOf(call.request.precision))) <= 0

\* 0.1 celsius has gone to kelvin and back under Scientific precision and has
\* not come back as 0.1
C14_Witness ==
  /\ IsBack
  /\ call.origin.temperature = Temperature(Dec(100000), "celsius")
  /\ call.origin.targetUnit = "kelvin"
  /\ call.request.precision = "scientific"
  /\ Succeeded
  /\ outcome.value.converted.value # Dec(100000)

\* ------------------------------------------------------------- error detail
\* the error is one of the specific failure kinds (a generic Error has none
\* of their fields) and names the offending field of the request with the
\* value found there
IsSpecificFailure(e, request) ==
  /\ e.name = "ConversionError"
  /\ e.code \in {"INVALID_TEMPERATURE_VALUE", "INVALID_TEMPERATURE_UNIT", "BELOW_ABSOLUTE_ZERO"}
  /\ e.field \in {"temperature.value", "temperature.unit", "targetUnit"}
  /\ (e.field = "temperature.value" => e.value = request.temperature.value)
  /\ (e.field = "temperature.unit" => e.value = request.temperature.unit)
  /\ (e.field = "targetUnit" => e.value = request.targetUnit)

\* C17: every failure convert raises for a known validation case (non-finite
\* value, unrecognized source or target unit, below absolute zero) is a
\* specific failure kind carrying the offending field and value, never a
\* generic error.
C17_SpecificFailure ==
  (IsConvert /\ EarliestViolation(call.request) # "none")
    => (Failed /\ IsSpecificFailure(outcome.error, call.request))

\* ------------------------------------------------------------ result fields
\* the labels that tell the pairs of supported units apart: one label for
\* each pair, and different labels for different pairs
LabelOf(fromUnit, toUnit) == <<"NIST", fromUnit, "to", toUnit>>

LabelsTellPairsApart ==
  \A a \in TemperatureUnit \X TemperatureUnit, b \in TemperatureUnit \X TemperatureUnit :
    (LabelOf(a[1], a[2]) = LabelOf(b[1], b[2])) <=> (a = b)

\* result r answers the conversion of temperature to targetUnit under the
\* requested precision
WellLabelled(r, temperature, targetUnit, precision) ==
  /\ r.converted.unit = targetUnit
  /\ r.converted.precision = r.precision
  /\ r.precision = EffectiveOf(precision)
  /\ r.conversionMethod = LabelOf(temperature.unit, targetUnit)

\* C18: in every successful ConversionResult converted.unit is the request's
\* target unit, converted.precision and the precision field both are the
\* effective precision context, and the conversion-method label is that of
\* the (source unit, target unit) pair, two pairs having the same label
\* exactly when they are the same pair.
C18_ResultFields ==
  /\ LabelsTellPairsApart
  /\ (IsConvert /\ Succeeded) =>
       WellLabelled(outcome.value, call.request.temperature, call.request.targetUnit,
                    call.request.precision)
  /\ (IsBatch /\ Succeeded) =>
       \A i \in 1..Len(outcome.value.conversions) :
         WellLabelled(outcome.value.conversions[i], call.request.temperatures[i],
                      call.request.targetUnit, call.request.precision)

\* a batch of two items of different units has been converted to kelvin
\* with the precision omitted, and the two labels differ
C18_Witness ==
  /\ IsBatch
  /\ Succeeded
  /\ Len(outcome.value.conversions) = 2
  /\ call.request.precision = Undefined
  /\ call.request.temperatures[1].unit # call.request.temperatures[2].unit
  /\ outcome.value.conversions[1].conversionMethod
       # outcome.value.conversions[2].conversionMethod
  /\ outcome.value.conversions[2].converted.unit = "kelvin"

IsRepeat == "first" \in DOMAIN call

\* outcomes a and b of operation op agree in everything but the timestamps
\* and the elapsed time
SameOutcome(op, a, b) ==
  /\ a.kind = b.kind
  /\ (a.kind = "error" => a.error = b.error)
  /\ (a.kind = "ok" /\ op = "convert") => SameButTimestamp(a.value, b.value)
  /\ (a.kind = "ok" /\ op = "batchConvert") =>
       /\ a.value.totalCount = b.value.totalCount
       /\ Len(a.value.conversions) = Len(b.value.conversions)
       /\ \A i \in 1..Len(a.value.conversions) :
            SameButTimestamp(a.value.conversions[i], b.value.conversions[i])

Answered(status) == res.headersSent /\ res.statusCode = status

\* the response is a problem-details body of this type whose status is the
\* HTTP status of the response
Problem(type) ==
  /\ res.headersSent
  /\ "error" \in DOMAIN res.body
  /\ res.body.error.type = type
  /\ res.body.error.status = res.statusCode

\* the error handed to the error handler is a failure of the engine of one
\* of these kinds
EngineFailure(codes) ==
  /\ outcome.kind = "error"
  /\ outcome.error.name = "ConversionError"
  /\ outcome.error.code \in codes

\* the error handed to the error handler is none the application foresees
UnexpectedFault ==
  /\ outcome.kind = "error"
  /\ outcome.error.name \notin {"ConversionError", "ValidationError"}
  /\ "statusCode" \notin DOMAIN outcome.error

\* C15: the HTTP error handler maps engine failures by kind: InvalidValue
\* and InvalidUnit to status 400, BelowAbsoluteZero to status 422, and any
\* unexpected internal fault to status 500; the status in the
\* problem-details body always equals the HTTP status of the response.
C15_StatusByKind ==
  (res.headersSent /\ outcome.kind = "error") =>
    /\ EngineFailure({"INVALID_TEMPERATURE_VALUE", "INVALID_TEMPERATURE_UNIT"})
         => Answered(400)
    /\ EngineFailure({"BELOW_ABSOLUTE_ZERO"}) => Answered(422)
    /\ UnexpectedFault => Answered(500)
    /\ res.body.error.status = res.statusCode

\* ---------------------------------------------------------- schema violations
\* what the request schema refuses, stated on the JSON values of the body
NotANumber(j) == j.t \notin {"number", "string"} \/ j.num.k = "nan"
NotFinite(j) == j.num.k = "inf"
NotAUnit(j) == j.t # "string" \/ j.str \notin {"celsius", "fahrenheit", "kelvin"}
NotAPrecision(j) ==
  j.t # "undefined"
  /\ (j.t # "string" \/ j.str \notin {"consumer", "medical", "industrial", "scientific"})

BadTemperature(t) ==
  \/ t.t = "undefined"
  \/ NotANumber(t.value)
  \/ NotFinite(t.value)
  \/ NotAUnit(t.unit)
  \/ NotAPrecision(t.precision)

ViolatesConversionSchema(body) ==
  \/ BadTemperature(body.temperature)
  \/ NotAUnit(body.targetUnit)
  \/ NotAPrecision(body.precision)

ViolatesBatchSchema(body) ==
  \/ body.temperatures.t = "undefined"
  \/ Len(body.temperatures.items) < 1
  \/ Len(body.temperatures.items) > 1000
  \/ \E i \in 1..Len(body.temperatures.items) : BadTemperature(body.temperatures.items[i])
  \/ NotAUnit(body.targetUnit)
  \/ NotAPrecision(body.precision)

\* the request is refused as invalid and the engine is not invoked
Refused ==
  /\ Answered(400)
  /\ Problem("/errors/validation-failed")
  /\ call = NoCall
  /\ outcome = NoOutcome

\* the engine is invoked with the items of the body, in their order
BatchPassedOn ==
  /\ call.op = "batchConvert"
  /\ Len(call.request.temperatures) = Len(req.body.temperatures.items)
  /\ \A i \in 1..Len(call.request.temperatures) :
       /\ call.request.temperatures[i].value = req.body.temperatures.items[i].value.num
       /\ call.request.temperatures[i].unit = req.body.temperatures.items[i].unit.str
  /\ call.request.targetUnit = req.body.targetUnit.str

\* C16: every request body that violates the request schema (a non-numeric
\* or non-finite temperature value, a unit, targetUnit or precision outside
\* the enumerations, a missing required field, a batch of fewer than 1 or
\* more than 1000 temperatures) is answered with status 400 and error type
\* '/errors/validation-failed' and the engine is not invoked for it; a batch
\* of 1 to 1000 schema-valid items is passed to the engine.
C16_SchemaViolationRefused ==
  /\ (req.url = "/convert" /\ ViolatesConversionSchema(req.body)) => Refused
  /\ (req.url = "/convert/batch" /\ ViolatesBatchSchema(req.body)) => Refused
  /\ (req.url = "/convert/batch" /\ ~ViolatesBatchSchema(req.body)) => BatchPassedOn

\* a batch of 1001 valid items has been refused without the engine being
\* invoked
C16_Witness ==
  /\ req.url = "/convert/batch"
  /\ Len(req.body.temperatures.items) = 1001
  /\ req.body.targetUnit = JString("fahrenheit")
  /\ req.body.precision = JMissing
  /\ Refused

\* ------------------------------------------------------------- concurrency
\* what the call of activation f gives when nothing else runs
Alone(f) ==
  IF f.op = "convert"
    THEN convert(f.request, 0)
    ELSE batchConvert(f.request, 0, Dec(0))

\* C21: concurrent invocations of convert and batchConvert by several
\* handlers, in any interleaving, each give the outcome the same call gives
\* when run alone (timestamps and elapsed time apart), a failing call
\* leaving a concurrent successful one as it is.
C21_ConcurrentAsAlone ==
  \A h \in DOMAIN frames :
    frames[h].pc = "done" => SameOutcome(frames[h].op, Alone(frames[h]), frames[h].outcome)

\* a convert has failed in one handler while a batch started before the
\* failure was returned has succeeded in another
C21_Witness ==
  /\ DOMAIN frames = Handlers
  /\ frames[1].pc = "done"
  /\ frames[1].op = "convert"
  /\ frames[1].outcome.kind = "error"
  /\ frames[2].pc = "done"
  /\ frames[2].op = "batchConvert"
  /\ frames[2].outcome.kind = "ok"

Earlier(f, i) ==
  {f.log[n].step : n \in {m \in 1..(Len(f.log) - 1) : f.log[m].i = i}}

Arithmetic == {"toKelvin", "fromKelvin", "round"}

\* C23: in every execution of convert that ends in a failure for a malformed
\* or physically impossible input, no conversion formula and no rounding has
\* been evaluated before the failure is raised.
C23_ValidationBeforeArithmetic ==
  \A h \in DOMAIN frames :
    (frames[h].pc = "done" /\ frames[h].outcome.kind = "error")
      => Earlier(frames[h], frames[h].i) \cap Arithmetic = {}

\* ------------------------------------------------------------------ C24
\* the temperature of item i as the caller passed it
GivenItem(f, i) ==
  IF f.op = "convert" THEN f.request.temperature ELSE f.request.temperatures[i]

\* the ConversionResponses an activation has produced so far
ProducedBy(f) ==
  IF f.op = "convert"
    THEN IF f.pc = "done" /\ f.outcome.kind = "ok" THEN <<f.outcome.value>> ELSE <<>>
    ELSE f.conversions

\* the positions in the log of the roundings of item i
Roundings(f, i) ==
  {n \in 1..Len(f.log) : f.log[n].step = "round" /\ f.log[n].i = i}

\* C24: the precision context is applied once per conversion and only to
\* the converted value: what the formula receives is the input as given,
\* each produced value is the formula's unrounded value put through the
\* rounding of the context, and no item, single or of a batch, is rounded
\* twice.
C24_PrecisionAppliedOnce ==
  \A h \in DOMAIN frames :
    /\ frames[h].pc = "round"
         => /\ frames[h].convertedValue
                 = Unrounded(GivenItem(frames[h], frames[h].i), frames[h].request.targetUnit)
            /\ Roundings(frames[h], frames[h].i) = {}
    /\ \A i \in 1..Len(ProducedBy(frames[h])) :
         /\ Cardinality(Roundings(frames[h], i)) = 1
         /\ ProducedBy(frames[h])[i].original = GivenItem(frames[h], i)
         /\ ProducedBy(frames[h])[i].converted.value
              = applyPrecision(Unrounded(GivenItem(frames[h], i),
                                         frames[h].request.targetUnit),
                               EffectiveOf(frames[h].request.precision))

\* a batch of two has returned with both items rounded to two decimals, and
\* a single conversion of 25.123456 C has returned 77.22 F
C24_Witness ==
  \E h \in DOMAIN frames, g \in DOMAIN frames :
    /\ frames[h].pc = "done"
    /\ frames[h].op = "batchConvert"
    /\ frames[h].outcome.kind = "ok"
    /\ Len(frames[h].log) = 8
    /\ frames[g].pc = "done"
    /\ frames[g].op = "convert"
    /\ frames[g].outcome.kind = "ok"
    /\ frames[g].request.precision = "consumer"
    /\ frames[g].outcome.value.converted.value = Dec(77220000)

\* ------------------------------------------------------------------ C28
\* the indexes of the items of a batch that are not valid inputs
InvalidItems(f) ==
  {i \in 1..Len(f.request.temperatures) : ~ValidInput(f.request.temperatures[i])}

LowestOfSet(S) == CHOOSE i \in S : \A j \in S : i <= j

\* C28: batchConvert takes the items in input order and stops at the first
\* invalid one: the steps of an item never follow those of a later item, the
\* failure of a batch with invalid items is that of the invalid item with
\* the lowest index, and no item after that one is validated or converted.
C28_StopsAtFirstInvalid ==
  \A h \in DOMAIN frames :
    frames[h].op = "batchConvert"
      => /\ \A m \in 1..Len(frames[h].log), n \in 1..Len(frames[h].log) :
              m < n => frames[h].log[m].i <= frames[h].log[n].i
         /\ InvalidItems(frames[h]) # {}
              => /\ \A n \in 1..Len(frames[h].log) :
                      frames[h].log[n].i <= LowestOfSet(InvalidItems(frames[h]))
                 /\ Len(frames[h].conversions) < LowestOfSet(InvalidItems(frames[h]))
                 /\ frames[h].pc = "done"
                      => /\ frames[h].outcome.kind = "error"
                         /\ frames[h].outcome.error.value
                              = frames[h].request.temperatures[
                                  LowestOfSet(InvalidItems(frames[h]))].value

\* the batch whose second and third items are invalid has failed with the
\* below-absolute-zero error of the second after converting the first
C28_Witness ==
  \E h \in DOMAIN frames :
    /\ frames[h].op = "batchConvert"
    /\ frames[h].pc = "done"
    /\ InvalidItems(frames[h]) = {2, 3}
    /\ Len(frames[h].conversions) = 1
    /\ frames[h].outcome.kind = "error"
    /\ frames[h].outcome.error.code = "BELOW_ABSOLUTE_ZERO"

\* ------------------------------------------------------------------ C27
\* the temperature without the precision it may carry
WithoutPrecision(t) == [value |-> t.value, unit |-> t.unit]

CarriesPrecision(t) == "precision" \in DOMAIN t

\* what convert gives for the temperature stripped of its own precision
StrippedResult(t, targetUnit, precision) ==
  convert([temperature |-> WithoutPrecision(t), targetUnit |-> targetUnit,
           precision |-> precision], 0).value

\* result r of temperature t is what the request gives without t.precision
IgnoresItemPrecision(r, t, targetUnit, precision) ==
  /\ r.precision = EffectiveOf(precision)
  /\ r.converted.precision = EffectiveOf(precision)
  /\ r.converted = StrippedResult(t, targetUnit, precision).converted
  /\ r.precision = StrippedResult(t, targetUnit, precision).precision

\* C27: the precision carried by an input temperature never influences the
\* result: a successful conversion, single or of a batch item, has the
\* converted value and the precision labels of the same request without
\* temperature.precision, the labels being those of the request-level
\* precision (Scientific when omitted).
C27_ItemPrecisionIgnored ==
  /\ (IsConvert /\ Succeeded)
       => IgnoresItemPrecision(outcome.value, call.request.temperature,
                               call.request.targetUnit, call.request.precision)
  /\ (IsBatch /\ Succeeded)
       => \A i \in 1..Len(call.request.temperatures) :
            IgnoresItemPrecision(outcome.value.conversions[i], call.request.temperatures[i],
                                 call.request.targetUnit, call.request.precision)

\* 25.123456 C marked medical has been converted under Consumer to 77.22 F,
\* where three decimals would give 77.222
C27_Witness ==
  /\ IsConvert
  /\ Succeeded
  /\ CarriesPrecision(call.request.temperature)
  /\ call.request.temperature.precision = "medical"
  /\ call.request.precision = "consumer"
  /\ outcome.value.converted.value = Dec(77220000)
  /\ outcome.value.precision = "consumer"

\* ------------------------------------------------------------------ C29
\* the body sent is the success body
SuccessBody == "data" \in DOMAIN res.body /\ "error" \notin DOMAIN res.body

\* the body sent is the problem-details body of the error handler
ErrorBody == "error" \in DOMAIN res.body /\ "data" \notin DOMAIN res.body

\* C29: every request that reaches a controller (or another handler) has
\* exactly one response written: the success response when the engine
\* returned, otherwise one error response of the error handler; an error
\* raised after the headers went out is handed on and writes nothing more.
C29_ExactlyOneResponse ==
  req # NoRequest
    => /\ res.headersSent
       /\ res.written = 1
       /\ IF call # NoCall /\ outcome.kind = "ok"
            THEN SuccessBody /\ res.statusCode = HttpStatusCode.OK
            ELSE ErrorBody /\ res.statusCode # HttpStatusCode.OK

\* a conversion was answered with 200 and an error raised afterwards has
\* been handed on by the error handler, the response still the one written
C29_Witness ==
  /\ req # NoRequest
  /\ req.url = "/convert"
  /\ Answered(200)
  /\ res.written = 1
  /\ Len(res.handedOn) = 1
  /\ res.handedOn[1].name = "TypeError"

\* ------------------------------------------------------------------ C26
\* C26: the value returned by a successful convert is a valid input in the
\* target unit (finite and not below the absolute zero of that unit), and
\* feeding it back into convert fails neither with InvalidValue nor with
\* BelowAbsoluteZero.
C26_ResultIsValidInput ==
  (IsConvert /\ Succeeded)
    => /\ ValidInput(outcome.value.converted)
       /\ validateTemperature(outcome.value.converted).kind # "error"

\* ------------------------------------------------------------------ C25
\* C25: in exact arithmetic, a conversion between two different units routed
\* through Kelvin gives, for each of the six ordered unit pairs and every
\* valid input, the value of the direct formula of the pair.
C25_KelvinRouteIsDirect ==
  (call.op = "performConversion" /\ call.fromUnit # call.toUnit)
    => outcome.value = TemperatureService_convert(call.value, call.fromUnit, call.toUnit)

\* 100 celsius has gone through 373.15 K to exactly 212 fahrenheit
C25_Witness ==
  /\ call.op = "performConversion"
  /\ call.value = Q(100, 1)
  /\ call.fromUnit = "celsius"
  /\ call.toUnit = "fahrenheit"
  /\ outcome.value = Q(212, 1)

\* ------------------------------------------------------------------ C30
Signalled == server.signals # {}

NoneOpen == \A c \in DOMAIN server.conns : server.conns[c] = "closed"

\* after a signal the server accepts no connection, and the process exits
\* only with code 0, after a signal, with every connection ended
ShutdownIsOrderly ==
  /\ Signalled => ~server.accepting
  /\ server.exited => (Signalled /\ NoneOpen /\ server.exitCode = 0)

\* C30: after SIGTERM or SIGINT the server stops accepting
\* connections, the process eventually exits with code 0, and it exits only
\* after the server has finished closing.
C30_GracefulShutdown ==
  /\ []ShutdownIsOrderly
  /\ Signalled ~> server.exited

====
